---- MODULE Spec2Model ----
(***************************************************************************)
(* Job/candidate matching engine (oadiazp/instaffo).                       *)
(*                                                                         *)
(* Four specifications share the variables below:                          *)
(*   SpecScore  the pure domain functions (Job.skill_match_score,          *)
(*              Candidate.skill_match_score,                               *)
(*              MatchingService.calculate_job_candidate_match): Init draws *)
(*              the arguments, one action per function applies it.         *)
(*   Spec       one match request at a time against a search index, through*)
(*              MatchingApplicationService.find_matches (application ->    *)
(*              MatchingService -> repository -> ElasticsearchClient) or   *)
(*              through ElasticsearchService.find_matches, one action per  *)
(*              step between two calls to the index.                       *)
(*   SpecClient the life of one ElasticsearchClient: __init__ and the      *)
(*              connection attempts of _initialize_client, then its        *)
(*              operations (ping, get_health, get_document, search).       *)
(*   SpecConcurrent  match requests of several threads interleaved, one    *)
(*              action per step of a thread between two calls to the       *)
(*              index, next to a writer that changes the index.            *)
(*                                                                         *)
(* Python values: None and a missing dict key are the empty sequence, a    *)
(* present value v is <<v>>; a float is an exact fraction [num, den].      *)
(***************************************************************************)
EXTENDS Integers, Sequences, FiniteSets, TLC

VARIABLES call,     \* SpecScore: the function application [op, job, cand, skills, filters, args, result]
          index,    \* Spec: the search index, collection -> id -> document
          esUp,     \* Spec: whether the Elasticsearch cluster answers
          mock_mode,\* Spec: ElasticsearchClient._mock_mode
          req,      \* Spec: the request being served [entry, id, doc_type, filters]
          pc,       \* Spec: position of the request
          query,    \* Spec: the composed query, once built
          calls,    \* Spec: the calls the request made to the index, in order
          outcome,  \* Spec: how the request ended
          client,   \* SpecClient: [pc, env, attempt, has_client, events, last]
          th,       \* SpecConcurrent: thread -> [pc, req, query, calls, outcome, seen]
          writes    \* SpecConcurrent: how many times the index was written

vars == <<call, index, esUp, mock_mode, req, pc, query, calls, outcome, client, th, writes>>

(***************************************************************************)
(* Bounds of the model.                                                    *)
(***************************************************************************)
MaxSkills == 2        \* longest skill list of an entity or document
MaxSeniorities == 1   \* longest acceptable-seniority list of a job entity
MaxSalary == 1        \* largest salary amount
MaxDocSeniorities == 3 \* longest seniority list of a document handed to a mapper

(***************************************************************************)
(* Python values.                                                          *)
(***************************************************************************)
None == <<>>
Some(v) == <<v>>
IsNone(o) == o = <<>>
Val(o) == o[1]

\* dict.get(key, default) on a dict modelled as a function over its keys
Get(d, k, default) == IF k \in DOMAIN d THEN d[k] ELSE default

\* all sequences over S of length at most n
SeqsUpTo(S, n) == UNION {[1..k -> S] : k \in 0..n}

RECURSIVE GCD(_, _)
GCD(a, b) == IF b = 0 THEN a ELSE GCD(b, a % b)

\* the fraction n/d (n >= 0, d > 0) in lowest terms
Rat(n, d) == LET g == GCD(n, d) IN [num |-> n \div g, den |-> d \div g]
RAdd(a, b) == Rat(a.num * b.den + b.num * a.den, a.den * b.den)
RMul(a, b) == Rat(a.num * b.num, a.den * b.den)
RDiv(a, b) == Rat(a.num * b.den, a.den * b.num)
RLeq(a, b) == a.num * b.den <= b.num * a.den
RZero == Rat(0, 1)
ROne == Rat(1, 1)

RECURSIVE RSum(_)
RSum(s) == IF s = <<>> THEN RZero ELSE RAdd(Head(s), RSum(Tail(s)))

(***************************************************************************)
(* Strings: str.lower() and str.strip() on the skill names of the model.   *)
(***************************************************************************)
lower(s) ==
    CASE s = "Python" -> "python"
      [] s = " Python " -> " python "
      [] s = "AWS" -> "aws"
      [] s = "TypeScript" -> "typescript"
      [] s = "Machine Learning" -> "machine learning"
      [] s = "Senior" -> "senior"
      [] s = "SENIOR" -> "senior"
      [] s = "TRUE" -> "true"
      [] OTHER -> s

strip(s) ==
    CASE s = " Python " -> "Python"
      [] s = " python " -> "python"
      [] s = " " -> ""
      [] OTHER -> s

(***************************************************************************)
(* domain/value_objects.py                                                 *)
(***************************************************************************)
\* SeniorityLevel: the values of the enumeration
SeniorityLevel == {"none", "junior", "midlevel", "senior", "lead", "principal"}

\* a deviation: names compared as written
Skill_key_case_sensitive(skill) == skill.name

\* Skill.__eq__ / Skill.__hash__: the key two equal skills share
Skill_key(skill) == lower(skill.name)

\* Skill.__eq__(self, other); other is a Skill or a plain string, [type, name]
Skill_eq(self, other) ==
    IF other.type # "Skill" THEN FALSE ELSE Skill_key(self) = Skill_key(other)

\* Skill.__hash__: the hash of the lowered name, a string's hash being the string
Skill_hash(self) == Skill_key(self)

\* set(skills): a Python set of Skill objects, one element per key
SkillSet(skills) == {Skill_key(skills[i]) : i \in DOMAIN skills}

(***************************************************************************)
(* domain/models.py                                                        *)
(***************************************************************************)
\* a deviation: a salary of 0 taken for a missing one (`not salary.value`)
Job_matches_candidate_salary_zero_is_missing(job, candidate_salary_expectation) ==
    IF \/ IsNone(job.max_salary) \/ IsNone(candidate_salary_expectation)
       \/ Val(job.max_salary) = 0 \/ Val(candidate_salary_expectation) = 0
    THEN FALSE
    ELSE Val(job.max_salary) >= Val(candidate_salary_expectation)

\* Job.matches_candidate_salary; a Salary object is always truthy
Job_matches_candidate_salary(job, candidate_salary_expectation) ==
    IF IsNone(job.max_salary) \/ IsNone(candidate_salary_expectation)
    THEN FALSE
    ELSE Val(job.max_salary) >= Val(candidate_salary_expectation)

\* a deviation: a job listing no level accepts every level
Job_matches_candidate_seniority_empty_accepts_all(job, candidate_seniority) ==
    IF IsNone(candidate_seniority) THEN FALSE
    ELSE IF job.seniorities = <<>> THEN TRUE
    ELSE \E i \in DOMAIN job.seniorities : job.seniorities[i] = Val(candidate_seniority)

\* Job.matches_candidate_seniority
Job_matches_candidate_seniority(job, candidate_seniority) ==
    IF job.seniorities = <<>> \/ IsNone(candidate_seniority)
    THEN FALSE
    ELSE \E i \in DOMAIN job.seniorities : job.seniorities[i] = Val(candidate_seniority)

\* Job.skill_match_score
Job_skill_match_score(job, candidate_skills) ==
    IF job.top_skills = <<>> \/ candidate_skills = <<>>
    THEN RZero
    ELSE LET matching_skills == SkillSet(job.top_skills) \cap SkillSet(candidate_skills)
         IN  Rat(Cardinality(matching_skills), Len(job.top_skills))

\* a deviation: the job has to pay more than the expectation
Candidate_matches_job_salary_strict(cand, job_max_salary) ==
    IF IsNone(cand.salary_expectation) \/ IsNone(job_max_salary)
    THEN FALSE
    ELSE Val(job_max_salary) > Val(cand.salary_expectation)

\* Candidate.matches_job_seniority
Candidate_matches_job_seniority(cand, job_seniorities) ==
    IF IsNone(cand.seniority) \/ job_seniorities = <<>>
    THEN FALSE
    ELSE \E i \in DOMAIN job_seniorities : job_seniorities[i] = Val(cand.seniority)

\* Candidate.matches_job_salary
Candidate_matches_job_salary(cand, job_max_salary) ==
    IF IsNone(cand.salary_expectation) \/ IsNone(job_max_salary)
    THEN FALSE
    ELSE Val(job_max_salary) >= Val(cand.salary_expectation)

\* Candidate.skill_match_score
Candidate_skill_match_score(cand, job_top_skills) ==
    IF job_top_skills = <<>> \/ cand.top_skills = <<>>
    THEN RZero
    ELSE LET all_candidate_skills == SkillSet(cand.top_skills \o cand.other_skills)
             matching_skills == SkillSet(job_top_skills) \cap all_candidate_skills
         IN  Rat(Cardinality(matching_skills), Len(job_top_skills))

(***************************************************************************)
(* domain/services.py: MatchingService.calculate_job_candidate_match       *)
(***************************************************************************)
SkillWeight == Rat(2, 1)       \* weights.append(2.0)
SeniorityWeight == Rat(3, 2)   \* weights.append(1.5)
SalaryWeight == Rat(1, 1)      \* weights.append(1.0)

\* a deviation: a failed seniority check counted as a component of 0
ScoreLists_failed_seniority_zero(job, cand, filters) ==
    LET e0 == [c |-> <<>>, w |-> <<>>]
        e1 == IF Get(filters, "top_skill_match", FALSE)
              THEN [c |-> Append(e0.c, Job_skill_match_score(job, cand.top_skills)),
                    w |-> Append(e0.w, SkillWeight)]
              ELSE e0
        e2 == IF Get(filters, "seniority_match", FALSE)
              THEN [c |-> Append(e1.c,
                                 IF Job_matches_candidate_seniority(job, cand.seniority)
                                 THEN ROne ELSE RZero),
                    w |-> Append(e1.w, SeniorityWeight)]
              ELSE e1
        e3 == IF Get(filters, "salary_match", FALSE)
                 /\ Job_matches_candidate_salary(job, cand.salary_expectation)
              THEN [c |-> Append(e2.c, ROne), w |-> Append(e2.w, SalaryWeight)]
              ELSE e2
    IN  e3

\* a deviation: the skill criterion on unless switched off (filters.get(..., True))
ScoreLists_skill_default_on(job, cand, filters) ==
    LET e0 == [c |-> <<>>, w |-> <<>>]
        e1 == IF Get(filters, "top_skill_match", TRUE)
              THEN [c |-> Append(e0.c, Job_skill_match_score(job, cand.top_skills)),
                    w |-> Append(e0.w, SkillWeight)]
              ELSE e0
        e2 == IF Get(filters, "seniority_match", FALSE)
                 /\ Job_matches_candidate_seniority(job, cand.seniority)
              THEN [c |-> Append(e1.c, ROne), w |-> Append(e1.w, SeniorityWeight)]
              ELSE e1
        e3 == IF Get(filters, "salary_match", FALSE)
                 /\ Job_matches_candidate_salary(job, cand.salary_expectation)
              THEN [c |-> Append(e2.c, ROne), w |-> Append(e2.w, SalaryWeight)]
              ELSE e2
    IN  e3

\* the (score_components, weights) lists after the three filter blocks
ScoreLists(job, cand, filters) ==
    LET e0 == [c |-> <<>>, w |-> <<>>]
        e1 == IF Get(filters, "top_skill_match", FALSE)
              THEN [c |-> Append(e0.c, Job_skill_match_score(job, cand.top_skills)),
                    w |-> Append(e0.w, SkillWeight)]
              ELSE e0
        e2 == IF Get(filters, "seniority_match", FALSE)
                 /\ Job_matches_candidate_seniority(job, cand.seniority)
              THEN [c |-> Append(e1.c, ROne), w |-> Append(e1.w, SeniorityWeight)]
              ELSE e1
        e3 == IF Get(filters, "salary_match", FALSE)
                 /\ Job_matches_candidate_salary(job, cand.salary_expectation)
              THEN [c |-> Append(e2.c, ROne), w |-> Append(e2.w, SalaryWeight)]
              ELSE e2
    IN  e3

\* a deviation: divides by the number of components instead of their weight
calculate_job_candidate_match_by_count(job, cand, filters) ==
    LET l == ScoreLists(job, cand, filters)
    IN  IF l.c = <<>> THEN RZero
        ELSE RDiv(RSum([i \in DOMAIN l.c |-> RMul(l.c[i], l.w[i])]), Rat(Len(l.w), 1))

calculate_job_candidate_match(job, cand, filters) ==
    LET l == ScoreLists(job, cand, filters)
    IN  IF l.c = <<>> THEN RZero
        ELSE LET total_weight == RSum(l.w)
             IN  RDiv(RSum([i \in DOMAIN l.c |-> RMul(l.c[i], l.w[i])]), total_weight)

(***************************************************************************)
(* Arguments of the pure functions.                                        *)
(***************************************************************************)
FilterKeys == {"salary_match", "top_skill_match", "seniority_match"}

\* filter dicts: every key given a boolean, or only some keys, given True
FilterDicts ==
    [FilterKeys -> BOOLEAN] \cup {[k \in K |-> TRUE] : K \in SUBSET FilterKeys}

Enabled(filters, k) == Get(filters, k, FALSE)
NoFilterEnabled(filters) == \A k \in FilterKeys : ~Enabled(filters, k)

\* Skill objects as the constructor leaves them: name stripped and not empty
SkillsOf(names) == {[name |-> n] : n \in names}
EntitySeniorities == {"junior", "senior"}
Salaries == {None} \cup {Some(v) : v \in 0..MaxSalary}

Jobs(names) ==
    [top_skills : SeqsUpTo(SkillsOf(names), MaxSkills),
     other_skills : {<<>>},
     seniorities : SeqsUpTo(EntitySeniorities, MaxSeniorities),
     max_salary : Salaries]

Candidates(names, others) ==
    [top_skills : SeqsUpTo(SkillsOf(names), MaxSkills),
     other_skills : others,
     seniority : {None} \cup {Some(s) : s \in EntitySeniorities},
     salary_expectation : Salaries]

NoJob == [top_skills |-> <<>>, other_skills |-> <<>>, seniorities |-> <<>>, max_salary |-> None]
NoCandidate == [top_skills |-> <<>>, other_skills |-> <<>>, seniority |-> None,
                salary_expectation |-> None]

ScoreCalls ==
    [op : {"calculate_job_candidate_match"},
     job : Jobs({"Python", "AWS"}),
     cand : Candidates({"python", "AWS"}, {<<>>}),
     skills : {<<>>},
     filters : FilterDicts,
     args : {<<>>},
     result : {None}]
    \cup
    [op : {"Job.skill_match_score"},
     job : {[NoJob EXCEPT !.top_skills = t] :
               t \in SeqsUpTo(SkillsOf({"Python", "python", "AWS"}), MaxSkills)},
     cand : {NoCandidate},
     skills : SeqsUpTo(SkillsOf({"Python", "AWS"}), MaxSkills),
     filters : {<<>>},
     args : {<<>>},
     result : {None}]
    \cup
    [op : {"Candidate.skill_match_score"},
     job : {NoJob},
     cand : {[NoCandidate EXCEPT !.top_skills = t, !.other_skills = o] :
                t \in SeqsUpTo(SkillsOf({"Python", "AWS"}), MaxSkills),
                o \in SeqsUpTo(SkillsOf({"Python", "AWS"}), 1)},
     skills : SeqsUpTo(SkillsOf({"Python", "python", "AWS"}), MaxSkills),
     filters : {<<>>},
     args : {<<>>},
     result : {None}]


(***************************************************************************)
(* config.py                                                               *)
(***************************************************************************)
JOBS_INDEX == "jobs"
CANDIDATES_INDEX == "candidates"
MIN_MATCHING_SKILLS == 2
\* FILTER_CONFIGS[...]['weight']
TopSkillBoost == Rat(2, 1)
SeniorityBoost == Rat(3, 2)
\* size=100 of the search calls
SearchSize == 100

\* a deviation: the larger of the two
Min_gives_larger(a, b) == IF a >= b THEN a ELSE b

Min(a, b) == IF a <= b THEN a ELSE b

(***************************************************************************)
(* Documents of the index.  A field is <<>> when the key is missing, <<x>> *)
(* when it is there; a scalar x is None (JSON null) or Some(value).        *)
(***************************************************************************)
Missing == <<>>
Has(field) == field # <<>>

EmptyJobDoc == [top_skills |-> Missing, other_skills |-> Missing,
                seniorities |-> Missing, max_salary |-> Missing]
EmptyCandidateDoc == [top_skills |-> Missing, other_skills |-> Missing,
                      seniority |-> Missing, salary_expectation |-> Missing]

\* errors a call can raise: the exception class and, for ValueError, its reason
ErrNoFilter == "ValueError: at least one filter must be enabled"
ErrDocType == "ValueError: invalid document type"
ErrNotFound == "ValueError: not found"
ErrMissingField == "ValueError: missing field"
ErrInvalidValue == "ValueError: invalid value"
ErrType == "TypeError"
ErrAttribute == "AttributeError"
ErrConnection == "ConnectionError"

(***************************************************************************)
(* domain/value_objects.py: constructors                                   *)
(***************************************************************************)
\* Skill(name): the name stripped; an empty one is refused
Skill(name) == [error |-> IF strip(name) = "" THEN ErrInvalidValue ELSE "",
                value |-> [name |-> strip(name)]]

\* [level.value for level in SeniorityLevel], in the order of the enumeration
valid_levels == <<"none", "junior", "midlevel", "senior", "lead", "principal">>

\* a deviation: the string looked up as written
Seniority_from_string_case_sensitive(seniority_str) ==
    [error |-> IF seniority_str \in SeniorityLevel THEN "" ELSE ErrInvalidValue,
     value |-> seniority_str,
     listed |-> IF seniority_str \in SeniorityLevel THEN <<>> ELSE valid_levels]

\* Seniority.from_string; `listed` is the list of levels the error message names
Seniority_from_string(seniority_str) ==
    [error |-> IF lower(seniority_str) \in SeniorityLevel THEN "" ELSE ErrInvalidValue,
     value |-> lower(seniority_str),
     listed |-> IF lower(seniority_str) \in SeniorityLevel THEN <<>> ELSE valid_levels]

\* Salary(value); value is None or Some(int), and None < 0 is a TypeError
Salary(value) ==
    [error |-> IF IsNone(value) THEN ErrType
               ELSE IF Val(value) < 0 THEN ErrInvalidValue ELSE "",
     value |-> value]

(***************************************************************************)
(* infrastructure/mappers.py                                               *)
(***************************************************************************)
SkillsError(names) ==
    IF \E i \in DOMAIN names : Skill(names[i]).error # "" THEN ErrInvalidValue ELSE ""

SkillsOfNames(names) == [i \in DOMAIN names |-> Skill(names[i]).value]

\* UUID(doc_id), else int(doc_id): which ids convert
IsUUID(doc_id) == doc_id \in {"123e4567-e89b-12d3-a456-426614174000",
                              "123E4567-E89B-12D3-A456-426614174000",
                              "00000000-0000-0000-0000-000000000001"}
IsDigits(doc_id) == doc_id \in {"1", "2", "01"}
IdError(doc_id) == IF IsUUID(doc_id) \/ IsDigits(doc_id) THEN "" ELSE ErrInvalidValue

\* int(doc_id) of the digit strings
int(doc_id) == CASE doc_id = "1" -> 1 [] doc_id = "01" -> 1 [] doc_id = "2" -> 2

\* str() of the UUID a mapper gives the entity: UUID(doc_id) reads the hex digits in
\* either case, else '00000000-0000-0000-0000-{:012d}'.format(int(doc_id))
mapper_uuid(doc_id) ==
    IF IsUUID(doc_id)
    THEN [error |-> "",
          value |-> IF doc_id = "123E4567-E89B-12D3-A456-426614174000"
                    THEN "123e4567-e89b-12d3-a456-426614174000" ELSE doc_id]
    ELSE IF IsDigits(doc_id)
    THEN [error |-> "",
          value |-> CASE int(doc_id) = 1 -> "00000000-0000-0000-0000-000000000001"
                      [] int(doc_id) = 2 -> "00000000-0000-0000-0000-000000000002"]
    ELSE [error |-> ErrInvalidValue, value |-> ""]

\* the first error among those raised in statement order
FirstError(errors) ==
    LET bad == SelectSeq(errors, LAMBDA e : e # "")
    IN  IF bad = <<>> THEN "" ELSE Head(bad)

\* a deviation: an unrecognized seniority string fails the conversion
JobMapper_to_domain_strict(doc_id, doc) ==
    LET tops == IF Has(doc.top_skills) THEN doc.top_skills[1] ELSE <<>>
        others == IF Has(doc.other_skills) THEN doc.other_skills[1] ELSE <<>>
        strs == IF Has(doc.seniorities) THEN doc.seniorities[1] ELSE <<>>
        seniorities == [i \in DOMAIN strs |-> Seniority_from_string(strs[i]).value]
        seniority_error ==
            IF \E i \in DOMAIN strs : Seniority_from_string(strs[i]).error # ""
            THEN ErrInvalidValue ELSE ""
        salary == IF Has(doc.max_salary) THEN Salary(doc.max_salary[1])
                  ELSE [error |-> "", value |-> None]
    IN  [error |-> FirstError(<<SkillsError(tops), SkillsError(others), seniority_error,
                                salary.error, IdError(doc_id)>>),
         entity |-> [top_skills |-> SkillsOfNames(tops),
                     other_skills |-> SkillsOfNames(others),
                     seniorities |-> seniorities,
                     max_salary |-> salary.value]]

\* JobMapper.to_domain
JobMapper_to_domain(doc_id, doc) ==
    LET tops == IF Has(doc.top_skills) THEN doc.top_skills[1] ELSE <<>>
        others == IF Has(doc.other_skills) THEN doc.other_skills[1] ELSE <<>>
        strs == IF Has(doc.seniorities) THEN doc.seniorities[1] ELSE <<>>
        valid == SelectSeq(strs, LAMBDA x : Seniority_from_string(x).error = "")
        seniorities == [i \in DOMAIN valid |-> Seniority_from_string(valid[i]).value]
        salary == IF Has(doc.max_salary) THEN Salary(doc.max_salary[1])
                  ELSE [error |-> "", value |-> None]
    IN  [error |-> FirstError(<<SkillsError(tops), SkillsError(others),
                                salary.error, IdError(doc_id)>>),
         entity |-> [top_skills |-> SkillsOfNames(tops),
                     other_skills |-> SkillsOfNames(others),
                     seniorities |-> seniorities,
                     max_salary |-> salary.value]]

\* CandidateMapper.to_domain; None.lower() is an AttributeError, which is not caught
CandidateMapper_to_domain(doc_id, doc) ==
    LET tops == IF Has(doc.top_skills) THEN doc.top_skills[1] ELSE <<>>
        others == IF Has(doc.other_skills) THEN doc.other_skills[1] ELSE <<>>
        seniority ==
            IF ~Has(doc.seniority) THEN [error |-> "", value |-> None]
            ELSE IF IsNone(doc.seniority[1]) THEN [error |-> ErrAttribute, value |-> None]
            ELSE LET r == Seniority_from_string(Val(doc.seniority[1]))
                 IN  [error |-> "", value |-> IF r.error = "" THEN Some(r.value) ELSE None]
        salary == IF Has(doc.salary_expectation) THEN Salary(doc.salary_expectation[1])
                  ELSE [error |-> "", value |-> None]
    IN  [error |-> FirstError(<<SkillsError(tops), SkillsError(others), seniority.error,
                                salary.error, IdError(doc_id)>>),
         entity |-> [top_skills |-> SkillsOfNames(tops),
                     other_skills |-> SkillsOfNames(others),
                     seniority |-> seniority.value,
                     salary_expectation |-> salary.value]]

(***************************************************************************)
(* infrastructure/elasticsearch_client.py                                  *)
(***************************************************************************)
MockJobDoc ==
    [top_skills |-> << <<"Python", "AWS", "Machine Learning">> >>,
     other_skills |-> << <<"Docker", "Kubernetes", "Git">> >>,
     seniorities |-> << <<"midlevel", "senior">> >>,
     max_salary |-> <<Some(85000)>>]

MockCandidateDoc ==
    [top_skills |-> << <<"Python", "AWS", "TypeScript">> >>,
     other_skills |-> << <<"React", "Node.js">> >>,
     seniority |-> <<Some("senior")>>,
     salary_expectation |-> <<Some(80000)>>]

MockHits == <<[_id |-> "2", _score |-> Rat(95, 100)],
              [_id |-> "5", _score |-> Rat(87, 100)],
              [_id |-> "7", _score |-> Rat(76, 100)]>>

\* a deviation: the canned document of a collection answered for every id
ElasticsearchClient_get_document_mock_any_id(idx, doc_id) ==
    IF mock_mode
    THEN IF idx = "jobs" THEN Some(MockJobDoc)
         ELSE IF idx = "candidates" THEN Some(MockCandidateDoc)
         ELSE None
    ELSE IF esUp THEN index[idx][doc_id] ELSE None

\* ElasticsearchClient.get_document: the document, or None (also on any error)
ElasticsearchClient_get_document(idx, doc_id) ==
    IF mock_mode
    THEN IF idx = "jobs" /\ doc_id = "1" THEN Some(MockJobDoc)
         ELSE IF idx = "candidates" /\ doc_id = "1" THEN Some(MockCandidateDoc)
         ELSE None
    ELSE IF esUp THEN index[idx][doc_id] ELSE None

\* ElasticsearchClient.search: the hits the cluster answers with (hits), the canned
\* ones in mock mode, none on any error
ElasticsearchClient_search(idx, q, hits) ==
    IF mock_mode THEN MockHits
    ELSE IF esUp THEN hits ELSE <<>>

(***************************************************************************)
(* infrastructure/repositories.py                                          *)
(***************************************************************************)
\* `if not doc`: None and the empty dict are both falsy
JobDocFalsy(doc) == IsNone(doc) \/ Val(doc) = EmptyJobDoc
CandidateDocFalsy(doc) == IsNone(doc) \/ Val(doc) = EmptyCandidateDoc

\* ElasticsearchJobRepository.get_by_id
ElasticsearchJobRepository_get_by_id(job_id) ==
    LET doc == ElasticsearchClient_get_document(JOBS_INDEX, job_id)
    IN  IF JobDocFalsy(doc)
        THEN [error |-> "", found |-> FALSE, entity |-> NoJob]
        ELSE LET r == JobMapper_to_domain(job_id, Val(doc))
             IN  [error |-> r.error, found |-> r.error = "", entity |-> r.entity]

\* ElasticsearchCandidateRepository.get_by_id
ElasticsearchCandidateRepository_get_by_id(candidate_id) ==
    LET doc == ElasticsearchClient_get_document(CANDIDATES_INDEX, candidate_id)
    IN  IF CandidateDocFalsy(doc)
        THEN [error |-> "", found |-> FALSE, entity |-> NoCandidate]
        ELSE LET r == CandidateMapper_to_domain(candidate_id, Val(doc))
             IN  [error |-> r.error, found |-> r.error = "", entity |-> r.entity]

\* str(skill) over a skill list
SkillNames(skills) == [i \in DOMAIN skills |-> skills[i].name]

RepoSkillsClause(skills) ==
    [clause |-> "terms", field |-> "top_skills", values |-> SkillNames(skills),
     boost |-> TopSkillBoost,
     minimum_should_match |-> Min(Len(skills), MIN_MATCHING_SKILLS)]

\* ElasticsearchJobRepository.find_matches_for_candidate: should_queries
find_matches_for_candidate_should(candidate, filters) ==
    LET q0 == <<>>
        q1 == IF Get(filters, "salary_match", FALSE) /\ ~IsNone(candidate.salary_expectation)
              THEN Append(q0, [clause |-> "range", field |-> "max_salary", op |-> "gte",
                               bound |-> candidate.salary_expectation])
              ELSE q0
        q2 == IF Get(filters, "top_skill_match", FALSE) /\ candidate.top_skills # <<>>
              THEN Append(q1, RepoSkillsClause(candidate.top_skills))
              ELSE q1
        q3 == IF Get(filters, "seniority_match", FALSE) /\ ~IsNone(candidate.seniority)
              THEN Append(q2, [clause |-> "term", field |-> "seniorities",
                               value |-> Val(candidate.seniority),
                               boost |-> SeniorityBoost])
              ELSE q2
    IN  q3

\* ElasticsearchCandidateRepository.find_matches_for_job: should_queries
find_matches_for_job_should(job, filters) ==
    LET q0 == <<>>
        q1 == IF Get(filters, "salary_match", FALSE) /\ ~IsNone(job.max_salary)
              THEN Append(q0, [clause |-> "range", field |-> "salary_expectation",
                               op |-> "lte", bound |-> job.max_salary])
              ELSE q0
        q2 == IF Get(filters, "top_skill_match", FALSE) /\ job.top_skills # <<>>
              THEN Append(q1, RepoSkillsClause(job.top_skills))
              ELSE q1
        q3 == IF Get(filters, "seniority_match", FALSE) /\ job.seniorities # <<>>
              THEN Append(q2, [clause |-> "terms", field |-> "seniority",
                               values |-> job.seniorities, boost |-> SeniorityBoost])
              ELSE q2
    IN  q3

(***************************************************************************)
(* infrastructure/elasticsearch_service.py: the clause builders            *)
(***************************************************************************)
NoClause == [clause |-> "none"]

\* a deviation: the two directions of the range exchanged
ElasticsearchService_build_salary_query_swapped(source_doc, doc_type) ==
    IF doc_type = "job"
    THEN IF Has(source_doc.max_salary)
         THEN [error |-> "",
               clause |-> [clause |-> "range", field |-> "salary_expectation",
                           op |-> "gte", bound |-> source_doc.max_salary[1]]]
         ELSE [error |-> ErrMissingField, clause |-> NoClause]
    ELSE IF Has(source_doc.salary_expectation)
         THEN [error |-> "",
               clause |-> [clause |-> "range", field |-> "max_salary",
                           op |-> "lte", bound |-> source_doc.salary_expectation[1]]]
         ELSE [error |-> ErrMissingField, clause |-> NoClause]

\* ElasticsearchService._build_salary_query: source_doc[...] raises KeyError only
\* when the key is missing; a null value is copied into the clause
ElasticsearchService_build_salary_query(source_doc, doc_type) ==
    IF doc_type = "job"
    THEN IF Has(source_doc.max_salary)
         THEN [error |-> "",
               clause |-> [clause |-> "range", field |-> "salary_expectation",
                           op |-> "lte", bound |-> source_doc.max_salary[1]]]
         ELSE [error |-> ErrMissingField, clause |-> NoClause]
    ELSE IF Has(source_doc.salary_expectation)
         THEN [error |-> "",
               clause |-> [clause |-> "range", field |-> "max_salary",
                           op |-> "gte", bound |-> source_doc.salary_expectation[1]]]
         ELSE [error |-> ErrMissingField, clause |-> NoClause]

\* ElasticsearchService._build_skills_query
ElasticsearchService_build_skills_query(source_doc) ==
    LET top_skills == IF Has(source_doc.top_skills) THEN source_doc.top_skills[1] ELSE <<>>
    IN  IF top_skills = <<>>
        THEN [error |-> ErrMissingField, clause |-> NoClause]
        ELSE [error |-> "",
              clause |-> [clause |-> "terms", field |-> "top_skills",
                          values |-> top_skills, boost |-> TopSkillBoost,
                          minimum_should_match |->
                              Min(Len(top_skills), MIN_MATCHING_SKILLS)]]

\* a deviation: the job's clause aimed at the jobs' own 'seniorities' field
ElasticsearchService_build_seniority_query_own_field(source_doc, doc_type) ==
    IF doc_type = "job"
    THEN LET seniorities == IF Has(source_doc.seniorities)
                            THEN source_doc.seniorities[1] ELSE <<>>
         IN  IF seniorities = <<>>
             THEN [error |-> ErrMissingField, clause |-> NoClause]
             ELSE [error |-> "",
                   clause |-> [clause |-> "terms", field |-> "seniorities",
                               values |-> seniorities, boost |-> SeniorityBoost]]
    ELSE LET seniority == IF Has(source_doc.seniority) THEN source_doc.seniority[1] ELSE None
         IN  IF IsNone(seniority) \/ seniority = Some("")
             THEN [error |-> ErrMissingField, clause |-> NoClause]
             ELSE [error |-> "",
                   clause |-> [clause |-> "term", field |-> "seniorities",
                               value |-> Val(seniority), boost |-> SeniorityBoost]]

\* ElasticsearchService._build_seniority_query; `not seniority` holds for a missing
\* key, for null and for the empty string
ElasticsearchService_build_seniority_query(source_doc, doc_type) ==
    IF doc_type = "job"
    THEN LET seniorities == IF Has(source_doc.seniorities)
                            THEN source_doc.seniorities[1] ELSE <<>>
         IN  IF seniorities = <<>>
             THEN [error |-> ErrMissingField, clause |-> NoClause]
             ELSE [error |-> "",
                   clause |-> [clause |-> "terms", field |-> "seniority",
                               values |-> seniorities, boost |-> SeniorityBoost]]
    ELSE LET seniority == IF Has(source_doc.seniority) THEN source_doc.seniority[1] ELSE None
         IN  IF IsNone(seniority) \/ seniority = Some("")
             THEN [error |-> ErrMissingField, clause |-> NoClause]
             ELSE [error |-> "",
                   clause |-> [clause |-> "term", field |-> "seniorities",
                               value |-> Val(seniority), boost |-> SeniorityBoost]]

\* ElasticsearchService.find_matches, lines 111-124: the clause list, or the first
\* error raised while building it
ElasticsearchService_should_queries(source_doc, doc_type, filters) ==
    LET sal == IF Get(filters, "salary_match", FALSE)
               THEN ElasticsearchService_build_salary_query(source_doc, doc_type)
               ELSE [error |-> "", clause |-> NoClause]
        ski == IF Get(filters, "top_skill_match", FALSE)
               THEN ElasticsearchService_build_skills_query(source_doc)
               ELSE [error |-> "", clause |-> NoClause]
        sen == IF Get(filters, "seniority_match", FALSE)
               THEN ElasticsearchService_build_seniority_query(source_doc, doc_type)
               ELSE [error |-> "", clause |-> NoClause]
        built == SelectSeq(<<sal.clause, ski.clause, sen.clause>>,
                           LAMBDA c : c.clause # "none")
        err == FirstError(<<sal.error, ski.error, sen.error>>)
    IN  [error |-> IF err # "" THEN err
                   ELSE IF built = <<>> THEN ErrNoFilter ELSE "",
         should |-> built]

(***************************************************************************)
(* infrastructure/mappers.py: entity to document                           *)
(***************************************************************************)
\* JobMapper.to_document: every key written, max_salary null for a job without one
JobMapper_to_document(job) ==
    [top_skills |-> <<SkillNames(job.top_skills)>>,
     other_skills |-> <<SkillNames(job.other_skills)>>,
     seniorities |-> <<job.seniorities>>,
     max_salary |-> <<job.max_salary>>]

\* CandidateMapper.to_document: every key written, seniority and salary_expectation
\* null for a candidate without them
CandidateMapper_to_document(candidate) ==
    [top_skills |-> <<SkillNames(candidate.top_skills)>>,
     other_skills |-> <<SkillNames(candidate.other_skills)>>,
     seniority |-> <<candidate.seniority>>,
     salary_expectation |-> <<candidate.salary_expectation>>]

\* str(entity.id) of the entities converted
EntityId == "123e4567-e89b-12d3-a456-426614174000"

(***************************************************************************)
(* Arguments of the mappers and of the value objects.                      *)
(***************************************************************************)
RoundTripCalls ==
    [op : {"JobMapper.round_trip"},
     job : {[j EXCEPT !.other_skills = o] :
               j \in Jobs({"Python"}), o \in SeqsUpTo(SkillsOf({"AWS"}), 1)},
     cand : {NoCandidate},
     skills : {<<>>},
     filters : {<<>>},
     args : {<<>>},
     result : {None}]
    \cup
    [op : {"CandidateMapper.round_trip"},
     job : {NoJob},
     cand : Candidates({"Python"}, SeqsUpTo(SkillsOf({"AWS"}), 1)),
     skills : {<<>>},
     filters : {<<>>},
     args : {<<>>},
     result : {None}]

\* documents handed to the mappers: missing keys, blank skill names, unrecognized
\* and capitalized seniority strings, null and negative salaries
MapperSkillFields == {Missing} \cup {<<l>> : l \in SeqsUpTo({"Python", " "}, MaxSkills)}
MapperOtherSkillFields == {Missing, << <<>> >>, << <<" ">> >>, << <<"AWS">> >>}
MapperSeniorityStrings == {"Senior", "junior", "bogus"}
MapperSalaryFields == {Missing, <<None>>} \cup {<<Some(v)>> : v \in (-1)..MaxSalary}

MapperJobDocs ==
    [top_skills : MapperSkillFields,
     other_skills : MapperOtherSkillFields,
     seniorities : {Missing} \cup
                   {<<l>> : l \in SeqsUpTo(MapperSeniorityStrings, MaxDocSeniorities)},
     max_salary : MapperSalaryFields]

MapperCandidateDocs ==
    [top_skills : MapperSkillFields,
     other_skills : MapperOtherSkillFields,
     seniority : {Missing, <<None>>, <<Some("")>>} \cup
                 {<<Some(x)>> : x \in MapperSeniorityStrings},
     salary_expectation : MapperSalaryFields]

MapperCalls ==
    [op : {"JobMapper.to_domain"},
     job : {NoJob}, cand : {NoCandidate}, skills : {<<>>}, filters : {<<>>},
     args : {<<d>> : d \in MapperJobDocs},
     result : {None}]
    \cup
    [op : {"CandidateMapper.to_domain"},
     job : {NoJob}, cand : {NoCandidate}, skills : {<<>>}, filters : {<<>>},
     args : {<<d>> : d \in MapperCandidateDocs},
     result : {None}]

\* names handed to the Skill constructor, and the values a Skill is compared with
RawNames == {"Python", " Python ", "python", "AWS", " ", ""}
SkillEqCalls ==
    [op : {"Skill.__eq__"},
     job : {NoJob}, cand : {NoCandidate}, skills : {<<>>}, filters : {<<>>},
     args : {<<n, o>> : n \in RawNames, o \in [type : {"Skill", "str"}, name : RawNames]},
     result : {None}]

\* integers handed to the Salary constructor
SalaryInputs == (-2)..(MaxSalary + 1)

SalaryCalls ==
    [op : {"Salary"},
     job : {NoJob}, cand : {NoCandidate}, skills : {<<>>}, filters : {<<>>},
     args : {<<Some(v)>> : v \in SalaryInputs},
     result : {None}]
    \cup
    [op : {"Job.matches_candidate_salary"},
     job : {[NoJob EXCEPT !.max_salary = m] : m \in Salaries},
     cand : {NoCandidate}, skills : {<<>>}, filters : {<<>>},
     args : {<<e>> : e \in Salaries},
     result : {None}]
    \cup
    [op : {"Candidate.matches_job_salary"},
     job : {NoJob},
     cand : {[NoCandidate EXCEPT !.salary_expectation = e] : e \in Salaries},
     skills : {<<>>}, filters : {<<>>},
     args : {<<m>> : m \in Salaries},
     result : {None}]
    \cup
    [op : {"find_matches_for_job"},
     job : Jobs({"Python"}),
     cand : {NoCandidate}, skills : {<<>>},
     filters : [FilterKeys -> BOOLEAN],
     args : {<<>>},
     result : {None}]
    \cup
    [op : {"find_matches_for_candidate"},
     job : {NoJob},
     cand : Candidates({"Python"}, {<<>>}),
     skills : {<<>>},
     filters : [FilterKeys -> BOOLEAN],
     args : {<<>>},
     result : {None}]

\* strings handed to Seniority.from_string
SeniorityInputs ==
    {"none", "junior", "midlevel", "senior", "lead", "principal",
     "Senior", "SENIOR", "bogus", "", " senior "}
SeniorityCalls ==
    [op : {"Seniority.from_string"},
     job : {NoJob}, cand : {NoCandidate}, skills : {<<>>}, filters : {<<>>},
     args : {<<x>> : x \in SeniorityInputs},
     result : {None}]

\* job/candidate pairs handed to both sides' compatibility predicates
PredicateLevels == {"none", "junior", "senior"}
PredicateCalls ==
    [op : {"matches_salary"},
     job : {[NoJob EXCEPT !.max_salary = m] : m \in Salaries},
     cand : {[NoCandidate EXCEPT !.salary_expectation = e] : e \in Salaries},
     skills : {<<>>}, filters : {<<>>}, args : {<<>>},
     result : {None}]
    \cup
    [op : {"matches_seniority"},
     job : {[NoJob EXCEPT !.seniorities = l] :
               l \in SeqsUpTo(PredicateLevels, MaxSeniorities + 1)},
     cand : {[NoCandidate EXCEPT !.seniority = x] :
                x \in {None} \cup {Some(l) : l \in PredicateLevels}},
     skills : {<<>>}, filters : {<<>>}, args : {<<>>},
     result : {None}]

\* source documents handed to both query builders: every field present, skill names
\* without surrounding blanks, seniority strings valid and lower-case
BuilderSkillFields == {<<l>> : l \in SeqsUpTo({"Python", "AWS"}, MaxSkills) \ {<<>>}}
BuilderSeniorityStrings == {"none", "senior"}
BuilderSalaryFields == {<<Some(v)>> : v \in (-1)..MaxSalary}
BuilderJobDocs ==
    [top_skills : BuilderSkillFields,
     other_skills : {<< <<>> >>, << <<"AWS">> >>},
     seniorities : {<<l>> : l \in SeqsUpTo(BuilderSeniorityStrings, MaxSeniorities + 1)
                                     \ {<<>>}},
     max_salary : BuilderSalaryFields]
BuilderCandidateDocs ==
    [top_skills : BuilderSkillFields,
     other_skills : {<< <<>> >>, << <<"AWS">> >>},
     seniority : {<<Some(x)>> : x \in BuilderSeniorityStrings},
     salary_expectation : BuilderSalaryFields]
BuilderCalls ==
    [op : {"query_builders"},
     job : {NoJob}, cand : {NoCandidate}, skills : {<<>>},
     filters : {f \in FilterDicts : ~NoFilterEnabled(f)},
     args : {<<"job", d>> : d \in BuilderJobDocs}
            \cup {<<"candidate", d>> : d \in BuilderCandidateDocs},
     result : {None}]

\* id strings a document may be stored under, two at a time
OpaqueIds == {"1", "2", "01", "abc", "job-17",
              "123e4567-e89b-12d3-a456-426614174000",
              "123E4567-E89B-12D3-A456-426614174000",
              "00000000-0000-0000-0000-000000000001"}
IdCalls ==
    [op : {"get_by_id"},
     job : {NoJob}, cand : {NoCandidate}, skills : {<<>>}, filters : {<<>>},
     args : {<<doc_type, a, b>> : doc_type \in {"job", "candidate"},
                                  a \in OpaqueIds, b \in OpaqueIds},
     result : {None}]

(***************************************************************************)
(* The request machine at rest (SpecScore leaves it there).                *)
(***************************************************************************)
NoRequest == [entry |-> "", id |-> "", doc_type |-> "", filters |-> <<>>]
NoQuery == [index |-> "", should |-> <<>>, minimum_should_match |-> 0, size |-> 0]
NoOutcome == [status |-> "none", error |-> "", matches |-> <<>>]
NoLast == [op |-> "", index |-> "", id |-> "", result |-> <<>>]
NoClient == [pc |-> "", env |-> <<>>, attempt |-> 0, has_client |-> FALSE,
             events |-> <<>>, last |-> NoLast]
NoThreads == <<>>

(***************************************************************************)
(* SpecScore: the pure functions applied to the drawn arguments.           *)
(***************************************************************************)
InitScore ==
    /\ call \in ScoreCalls \cup RoundTripCalls \cup MapperCalls \cup SkillEqCalls
                \cup SalaryCalls \cup SeniorityCalls \cup PredicateCalls
                \cup BuilderCalls \cup IdCalls
    /\ index = <<>>
    /\ esUp = FALSE
    /\ mock_mode = FALSE
    /\ req = NoRequest
    /\ pc = "idle"
    /\ query = NoQuery
    /\ calls = <<>>
    /\ outcome = NoOutcome
    /\ client = NoClient
    /\ th = NoThreads
    /\ writes = 0

\* a call that returned v without raising
Returned(v) == [error |-> "", value |-> v]

requestVars == <<index, esUp, mock_mode, req, pc, query, calls, outcome, client, th, writes>>

ApplyCalculateMatch ==
    /\ call.op = "calculate_job_candidate_match"
    /\ IsNone(call.result)
    /\ call' = [call EXCEPT !.result =
                   Some(Returned(calculate_job_candidate_match(call.job, call.cand,
                                                               call.filters)))]
    /\ UNCHANGED requestVars

ApplyJobSkillMatchScore ==
    /\ call.op = "Job.skill_match_score"
    /\ IsNone(call.result)
    /\ call' = [call EXCEPT !.result =
                   Some(Returned(Job_skill_match_score(call.job, call.skills)))]
    /\ UNCHANGED requestVars

ApplyCandidateSkillMatchScore ==
    /\ call.op = "Candidate.skill_match_score"
    /\ IsNone(call.result)
    /\ call' = [call EXCEPT !.result =
                   Some(Returned(Candidate_skill_match_score(call.cand, call.skills)))]
    /\ UNCHANGED requestVars

\* JobMapper.to_document, then JobMapper.to_domain on what it wrote
ApplyJobRoundTrip ==
    /\ call.op = "JobMapper.round_trip"
    /\ IsNone(call.result)
    /\ LET r == JobMapper_to_domain(EntityId, JobMapper_to_document(call.job))
       IN  call' = [call EXCEPT !.result = Some([error |-> r.error, value |-> r.entity])]
    /\ UNCHANGED requestVars

\* CandidateMapper.to_document, then CandidateMapper.to_domain on what it wrote
ApplyCandidateRoundTrip ==
    /\ call.op = "CandidateMapper.round_trip"
    /\ IsNone(call.result)
    /\ LET r == CandidateMapper_to_domain(EntityId, CandidateMapper_to_document(call.cand))
       IN  call' = [call EXCEPT !.result = Some([error |-> r.error, value |-> r.entity])]
    /\ UNCHANGED requestVars

\* JobMapper.to_domain on a document stored under id "1"
ApplyJobMapperToDomain ==
    /\ call.op = "JobMapper.to_domain"
    /\ IsNone(call.result)
    /\ LET r == JobMapper_to_domain("1", call.args[1])
       IN  call' = [call EXCEPT !.result = Some([error |-> r.error, value |-> r.entity])]
    /\ UNCHANGED requestVars

\* CandidateMapper.to_domain on a document stored under id "1"
ApplyCandidateMapperToDomain ==
    /\ call.op = "CandidateMapper.to_domain"
    /\ IsNone(call.result)
    /\ LET r == CandidateMapper_to_domain("1", call.args[1])
       IN  call' = [call EXCEPT !.result = Some([error |-> r.error, value |-> r.entity])]
    /\ UNCHANGED requestVars

\* Skill(name) == other, hash(Skill(name)) == hash(other), len({Skill(name), other}),
\* other being Skill(name2) or the plain string name2
ApplySkillEq ==
    /\ call.op = "Skill.__eq__"
    /\ IsNone(call.result)
    /\ LET a == Skill(call.args[1])
           o == call.args[2]
           b == IF o.type = "Skill" THEN Skill(o.name)
                ELSE [error |-> "", value |-> [name |-> o.name]]
           other == [type |-> o.type, name |-> b.value.name]
       IN  call' = [call EXCEPT !.result = Some(
               [error |-> FirstError(<<a.error, b.error>>),
                value |-> [eq |-> Skill_eq(a.value, other),
                           same_hash |-> Skill_hash(a.value) =
                                            IF o.type = "Skill" THEN Skill_hash(b.value)
                                            ELSE o.name,
                           set_size |->
                               IF /\ Skill_eq(a.value, other)
                                  /\ Skill_hash(a.value) = Skill_hash(b.value)
                               THEN 1 ELSE 2]])]
    /\ UNCHANGED requestVars

\* Salary(value)
ApplySalary ==
    /\ call.op = "Salary"
    /\ IsNone(call.result)
    /\ call' = [call EXCEPT !.result = Some(Salary(call.args[1]))]
    /\ UNCHANGED requestVars

\* Job.matches_candidate_salary
ApplyJobMatchesCandidateSalary ==
    /\ call.op = "Job.matches_candidate_salary"
    /\ IsNone(call.result)
    /\ call' = [call EXCEPT !.result =
                   Some(Returned(Job_matches_candidate_salary(call.job, call.args[1])))]
    /\ UNCHANGED requestVars

\* Candidate.matches_job_salary
ApplyCandidateMatchesJobSalary ==
    /\ call.op = "Candidate.matches_job_salary"
    /\ IsNone(call.result)
    /\ call' = [call EXCEPT !.result =
                   Some(Returned(Candidate_matches_job_salary(call.cand, call.args[1])))]
    /\ UNCHANGED requestVars

\* the clause building of ElasticsearchCandidateRepository.find_matches_for_job
ApplyFindMatchesForJobShould ==
    /\ call.op = "find_matches_for_job"
    /\ IsNone(call.result)
    /\ call' = [call EXCEPT !.result =
                   Some(Returned(find_matches_for_job_should(call.job, call.filters)))]
    /\ UNCHANGED requestVars

\* the clause building of ElasticsearchJobRepository.find_matches_for_candidate
ApplyFindMatchesForCandidateShould ==
    /\ call.op = "find_matches_for_candidate"
    /\ IsNone(call.result)
    /\ call' = [call EXCEPT !.result =
                   Some(Returned(find_matches_for_candidate_should(call.cand, call.filters)))]
    /\ UNCHANGED requestVars

\* Seniority.from_string
ApplySeniorityFromString ==
    /\ call.op = "Seniority.from_string"
    /\ IsNone(call.result)
    /\ call' = [call EXCEPT !.result = Some(Seniority_from_string(call.args[1]))]
    /\ UNCHANGED requestVars

\* job.matches_candidate_salary(candidate.salary_expectation) and
\* candidate.matches_job_salary(job.max_salary) on the same pair
ApplyMatchesSalary ==
    /\ call.op = "matches_salary"
    /\ IsNone(call.result)
    /\ call' = [call EXCEPT !.result = Some(Returned(
           [job_side |-> Job_matches_candidate_salary(call.job,
                                                      call.cand.salary_expectation),
            candidate_side |-> Candidate_matches_job_salary(call.cand,
                                                            call.job.max_salary)]))]
    /\ UNCHANGED requestVars

\* job.matches_candidate_seniority(candidate.seniority) and
\* candidate.matches_job_seniority(job.seniorities) on the same pair
ApplyMatchesSeniority ==
    /\ call.op = "matches_seniority"
    /\ IsNone(call.result)
    /\ call' = [call EXCEPT !.result = Some(Returned(
           [job_side |-> Job_matches_candidate_seniority(call.job, call.cand.seniority),
            candidate_side |-> Candidate_matches_job_seniority(call.cand,
                                                               call.job.seniorities)]))]
    /\ UNCHANGED requestVars

\* what a repository's find_matches_for_* sends for a source document stored under
\* id "1": the mapper's entity, then the clause list, to the other collection
RepositorySends(doc_type, doc, filters) ==
    LET m == IF doc_type = "job" THEN JobMapper_to_domain("1", doc)
             ELSE CandidateMapper_to_domain("1", doc)
        should_queries == IF doc_type = "job"
                          THEN find_matches_for_job_should(m.entity, filters)
                          ELSE find_matches_for_candidate_should(m.entity, filters)
    IN  IF m.error # "" THEN [error |-> m.error, index |-> "", should |-> <<>>]
        ELSE IF should_queries = <<>> THEN [error |-> "", index |-> "", should |-> <<>>]
        ELSE [error |-> "",
              index |-> IF doc_type = "job" THEN CANDIDATES_INDEX ELSE JOBS_INDEX,
              should |-> should_queries]

\* what ElasticsearchService.find_matches sends for the same document
ServiceSends(doc_type, doc, filters) ==
    LET b == ElasticsearchService_should_queries(doc, doc_type, filters)
    IN  IF b.error # "" THEN [error |-> b.error, index |-> "", should |-> <<>>]
        ELSE [error |-> "",
              index |-> IF doc_type = "job" THEN CANDIDATES_INDEX ELSE JOBS_INDEX,
              should |-> b.should]

\* both query builders on the same source document and filters
ApplyQueryBuilders ==
    /\ call.op = "query_builders"
    /\ IsNone(call.result)
    /\ call' = [call EXCEPT !.result = Some(Returned(
           [repository |-> RepositorySends(call.args[1], call.args[2], call.filters),
            service |-> ServiceSends(call.args[1], call.args[2], call.filters)]))]
    /\ UNCHANGED requestVars

\* get_by_id of a repository for a document the collection holds under doc_id:
\* the document is not falsy, so the mapper converts it
GetPresentById(doc_type, doc_id) ==
    LET m == IF doc_type = "job" THEN JobMapper_to_domain(doc_id, MockJobDoc)
             ELSE CandidateMapper_to_domain(doc_id, MockCandidateDoc)
        id == mapper_uuid(doc_id)
    IN  IF m.error # "" THEN [error |-> m.error, found |-> FALSE, id |-> ""]
        ELSE IF id.error # "" THEN [error |-> id.error, found |-> FALSE, id |-> ""]
        ELSE [error |-> "", found |-> TRUE, id |-> id.value]

\* get_by_id for two ids of one collection, each holding a document
ApplyGetById ==
    /\ call.op = "get_by_id"
    /\ IsNone(call.result)
    /\ call' = [call EXCEPT !.result = Some(Returned(
           <<GetPresentById(call.args[1], call.args[2]),
             GetPresentById(call.args[1], call.args[3])>>))]
    /\ UNCHANGED requestVars

NextScore ==
    \/ ApplyGetById
    \/ ApplyQueryBuilders
    \/ ApplyMatchesSalary
    \/ ApplyMatchesSeniority
    \/ ApplySeniorityFromString
    \/ ApplySalary
    \/ ApplyJobMatchesCandidateSalary
    \/ ApplyCandidateMatchesJobSalary
    \/ ApplyFindMatchesForJobShould
    \/ ApplyFindMatchesForCandidateShould
    \/ ApplySkillEq
    \/ ApplyCalculateMatch
    \/ ApplyJobSkillMatchScore
    \/ ApplyCandidateSkillMatchScore
    \/ ApplyJobRoundTrip
    \/ ApplyCandidateRoundTrip
    \/ ApplyJobMapperToDomain
    \/ ApplyCandidateMapperToDomain

SpecScore == InitScore /\ [][NextScore]_vars


(***************************************************************************)
(* Spec: match requests against the index.                                 *)
(***************************************************************************)
Ids == {"1", "2"}
DocTypes == {"job", "candidate", "invalid_type"}
DocSkillNames == {"Python", "AWS", " "}
DocSeniorityStrings == {"senior", "bogus"}

DocSkillFields == {Missing} \cup {<<l>> : l \in SeqsUpTo(DocSkillNames, MaxSkills)}
DocSalaryFields == {Missing, <<None>>} \cup {<<Some(v)>> : v \in 0..MaxSalary}

JobDocs ==
    [top_skills : DocSkillFields,
     other_skills : {Missing},
     seniorities : {Missing} \cup {<<l>> : l \in SeqsUpTo(DocSeniorityStrings, MaxSeniorities)},
     max_salary : DocSalaryFields]

CandidateDocs ==
    [top_skills : DocSkillFields,
     other_skills : {Missing},
     seniority : {Missing, <<None>>, <<Some("")>>} \cup {<<Some(x)>> : x \in DocSeniorityStrings},
     salary_expectation : DocSalaryFields]

\* the index holds at most one document, under id "1" of one collection
EmptyCollection == [id \in Ids |-> None]
EmptyIndex == [jobs |-> EmptyCollection, candidates |-> EmptyCollection]
Indexes ==
    {EmptyIndex}
    \cup {[EmptyIndex EXCEPT !.jobs["1"] = Some(d)] : d \in JobDocs}
    \cup {[EmptyIndex EXCEPT !.candidates["1"] = Some(d)] : d \in CandidateDocs}

\* what a search may answer: an external ranking, in the index's order
Hit1 == [_id |-> "1", _score |-> Rat(8, 10)]
Hit2 == [_id |-> "2", _score |-> Rat(6, 10)]
HitLists == {<<>>, <<Hit1>>, <<Hit1, Hit2>>, <<Hit2, Hit1>>}

NoCall == [op |-> "", job |-> NoJob, cand |-> NoCandidate, skills |-> <<>>,
           filters |-> <<>>, args |-> <<>>, result |-> None]

Init ==
    /\ call = NoCall
    /\ index \in Indexes
    /\ esUp \in BOOLEAN
    /\ mock_mode \in BOOLEAN
    /\ req = NoRequest
    /\ pc = "idle"
    /\ query = NoQuery
    /\ calls = <<>>
    /\ outcome = NoOutcome
    /\ client = NoClient
    /\ th = NoThreads
    /\ writes = 0

Error(e) == [status |-> "error", error |-> e, matches |-> <<>>]
Ok(m) == [status |-> "ok", error |-> "", matches |-> m]

\* a call to the index, with whether the cluster answered when it was made; a search
\* keeps the query it sent and the hits it got back
GetCall(idx, id) ==
    [op |-> "get", index |-> idx, id |-> id, should |-> <<>>, hits |-> <<>>, up |-> esUp]
SearchCall(q, hits) ==
    [op |-> "search", index |-> q.index, id |-> "", should |-> q.should, hits |-> hits,
     up |-> esUp]
HealthCall ==
    [op |-> "health", index |-> "", id |-> "", should |-> <<>>, hits |-> <<>>, up |-> esUp]

\* a deviation: every clause required (minimum_should_match = number of clauses)
Query_all_clauses_required(idx, should_queries) ==
    [index |-> idx, should |-> should_queries,
     minimum_should_match |-> Len(should_queries), size |-> SearchSize]

\* the composed bool query and where it is sent
Query(idx, should_queries) ==
    [index |-> idx, should |-> should_queries, minimum_should_match |-> 1,
     size |-> SearchSize]

\* a deviation: the matches ranked by this layer, best score first
RECURSIVE BestFirst(_)
BestFirst(hits) ==
    IF hits = <<>> THEN <<>>
    ELSE LET best == CHOOSE i \in DOMAIN hits :
                         \A j \in DOMAIN hits :
                             /\ RLeq(hits[j]._score, hits[i]._score)
                             /\ (j < i => hits[j]._score # hits[i]._score)
             rest == [k \in 1..(Len(hits) - 1) |-> IF k < best THEN hits[k] ELSE hits[k + 1]]
         IN  <<hits[best]>> \o BestFirst(rest)

Matches_best_first(hits) ==
    [i \in DOMAIN hits |-> [id |-> BestFirst(hits)[i]._id,
                            relevance_score |-> BestFirst(hits)[i]._score]]

\* hits to (id, score) pairs, in order
Matches(hits) == [i \in DOMAIN hits |-> [id |-> hits[i]._id,
                                         relevance_score |-> hits[i]._score]]

Resting == pc = "idle"

\* a deviation: every type that is not 'job' is taken for a candidate
MatchingApplicationService_find_matches_unknown_is_candidate ==
    \E id \in Ids, doc_type \in DocTypes, filters \in [FilterKeys -> BOOLEAN] :
        /\ Resting
        /\ req' = [entry |-> "application", id |-> id, doc_type |-> doc_type,
                   filters |-> filters]
        /\ calls' = <<>>
        /\ query' = NoQuery
        /\ IF \A k \in FilterKeys : ~filters[k]
           THEN pc' = "done" /\ outcome' = Error(ErrNoFilter)
           ELSE IF doc_type = "job"
           THEN pc' = "find_matching_candidates_for_job" /\ outcome' = NoOutcome
           ELSE pc' = "find_matching_jobs_for_candidate" /\ outcome' = NoOutcome
        /\ UNCHANGED <<client, th, writes, call, index, esUp, mock_mode>>

\* MatchingApplicationService.find_matches up to its call of the MatchingService
MatchingApplicationService_find_matches ==
    \E id \in Ids, doc_type \in DocTypes, filters \in [FilterKeys -> BOOLEAN] :
        /\ Resting
        /\ req' = [entry |-> "application", id |-> id, doc_type |-> doc_type,
                   filters |-> filters]
        /\ calls' = <<>>
        /\ query' = NoQuery
        /\ IF \A k \in FilterKeys : ~filters[k]
           THEN pc' = "done" /\ outcome' = Error(ErrNoFilter)
           ELSE IF doc_type = "job"
           THEN pc' = "find_matching_candidates_for_job" /\ outcome' = NoOutcome
           ELSE IF doc_type = "candidate"
           THEN pc' = "find_matching_jobs_for_candidate" /\ outcome' = NoOutcome
           ELSE pc' = "done" /\ outcome' = Error(ErrDocType)
        /\ UNCHANGED <<client, th, writes, call, index, esUp, mock_mode>>

\* a deviation: an absent source answered with no matches instead of an error
ServiceFetched_empty_result(r, next) ==
    IF r.error # "" THEN pc' = "done" /\ outcome' = Error(r.error)
    ELSE IF ~r.found THEN pc' = "done" /\ outcome' = Ok(<<>>)
    ELSE pc' = next /\ outcome' = outcome

\* MatchingService.find_matching_*: what follows its get_by_id
ServiceFetched(r, next) ==
    IF r.error # "" THEN pc' = "done" /\ outcome' = Error(r.error)
    ELSE IF ~r.found THEN pc' = "done" /\ outcome' = Error(ErrNotFound)
    ELSE pc' = next /\ outcome' = outcome

\* MatchingService.find_matching_jobs_for_candidate up to the repository call
MatchingService_find_matching_jobs_for_candidate ==
    /\ pc = "find_matching_jobs_for_candidate"
    /\ calls' = Append(calls, GetCall(CANDIDATES_INDEX, req.id))
    /\ ServiceFetched(ElasticsearchCandidateRepository_get_by_id(req.id),
                      "find_matches_for_candidate")
    /\ UNCHANGED <<client, th, writes, call, index, esUp, mock_mode, req, query>>

\* MatchingService.find_matching_candidates_for_job up to the repository call
MatchingService_find_matching_candidates_for_job ==
    /\ pc = "find_matching_candidates_for_job"
    /\ calls' = Append(calls, GetCall(JOBS_INDEX, req.id))
    /\ ServiceFetched(ElasticsearchJobRepository_get_by_id(req.id),
                      "find_matches_for_job")
    /\ UNCHANGED <<client, th, writes, call, index, esUp, mock_mode, req, query>>

\* a repository's find_matches_for_*: what follows its own get_by_id
RepositoryFetched(r, idx, should_queries, next) ==
    IF r.error # "" THEN pc' = "done" /\ outcome' = Error(r.error) /\ query' = query
    ELSE IF ~r.found THEN pc' = "done" /\ outcome' = Error(ErrNotFound) /\ query' = query
    ELSE IF should_queries = <<>> THEN pc' = "done" /\ outcome' = Ok(<<>>) /\ query' = query
    ELSE pc' = next /\ outcome' = outcome /\ query' = Query(idx, should_queries)

\* ElasticsearchJobRepository.find_matches_for_candidate up to its search
ElasticsearchJobRepository_find_matches_for_candidate ==
    /\ pc = "find_matches_for_candidate"
    /\ calls' = Append(calls, GetCall(CANDIDATES_INDEX, req.id))
    /\ LET r == ElasticsearchCandidateRepository_get_by_id(req.id)
       IN  RepositoryFetched(r, JOBS_INDEX,
                             find_matches_for_candidate_should(r.entity, req.filters),
                             "search_jobs")
    /\ UNCHANGED <<client, th, writes, call, index, esUp, mock_mode, req>>

\* ElasticsearchCandidateRepository.find_matches_for_job up to its search
ElasticsearchCandidateRepository_find_matches_for_job ==
    /\ pc = "find_matches_for_job"
    /\ calls' = Append(calls, GetCall(JOBS_INDEX, req.id))
    /\ LET r == ElasticsearchJobRepository_get_by_id(req.id)
       IN  RepositoryFetched(r, CANDIDATES_INDEX,
                             find_matches_for_job_should(r.entity, req.filters),
                             "search_candidates")
    /\ UNCHANGED <<client, th, writes, call, index, esUp, mock_mode, req>>

\* the search of a repository and the formatting of its hits
RepositorySearch ==
    \E hits \in HitLists :
        /\ pc \in {"search_jobs", "search_candidates"}
        /\ LET found == ElasticsearchClient_search(query.index, query, hits)
           IN  /\ calls' = Append(calls, SearchCall(query, found))
               /\ outcome' = Ok(Matches(found))
        /\ pc' = "done"
        /\ UNCHANGED <<client, th, writes, call, index, esUp, mock_mode, req, query>>

\* ElasticsearchService.find_matches up to its get_document: check_connection
ElasticsearchService_find_matches ==
    \E id \in Ids, doc_type \in DocTypes, filters \in FilterDicts :
        /\ Resting
        /\ req' = [entry |-> "elasticsearch_service", id |-> id, doc_type |-> doc_type,
                   filters |-> filters]
        /\ calls' = <<HealthCall>>
        /\ query' = NoQuery
        /\ IF esUp
           THEN pc' = "es_get_document" /\ outcome' = NoOutcome
           ELSE pc' = "done" /\ outcome' = Error(ErrConnection)
        /\ UNCHANGED <<client, th, writes, call, index, esUp, mock_mode>>

\* ElasticsearchService.get_document up to its es.get: check_connection again
ElasticsearchService_get_document ==
    /\ pc = "es_get_document"
    /\ calls' = Append(calls, HealthCall)
    /\ IF esUp
       THEN pc' = "es_get" /\ outcome' = outcome
       ELSE pc' = "done" /\ outcome' = Error(ErrConnection)
    /\ UNCHANGED <<client, th, writes, call, index, esUp, mock_mode, req, query>>

\* ElasticsearchService.get_document: es.get, whose exception is raised again, and
\* the building of the query from the document
ElasticsearchService_es_get ==
    /\ pc = "es_get"
    /\ LET source_index == IF req.doc_type = "job" THEN JOBS_INDEX ELSE CANDIDATES_INDEX
           target_index == IF req.doc_type = "job" THEN CANDIDATES_INDEX ELSE JOBS_INDEX
           doc == index[source_index][req.id]
       IN  /\ calls' = Append(calls, GetCall(source_index, req.id))
           /\ IF ~esUp
              THEN pc' = "done" /\ outcome' = Error(ErrConnection) /\ query' = query
              ELSE
                   IF IsNone(doc)
                   THEN pc' = "done" /\ outcome' = Error(ErrNotFound) /\ query' = query
                   ELSE LET b == ElasticsearchService_should_queries(
                                     Val(doc), req.doc_type, req.filters)
                        IN  IF b.error # ""
                            THEN pc' = "done" /\ outcome' = Error(b.error) /\ query' = query
                            ELSE /\ pc' = "es_search" /\ outcome' = outcome
                                 /\ query' = Query(target_index, b.should)
    /\ UNCHANGED <<client, th, writes, call, index, esUp, mock_mode, req>>

\* ElasticsearchService.find_matches: the search and the formatting of its hits
ElasticsearchService_search ==
    \E hits \in HitLists :
        /\ pc = "es_search"
        /\ calls' = Append(calls, SearchCall(query, IF esUp THEN hits ELSE <<>>))
        /\ pc' = "done"
        /\ outcome' = IF esUp THEN Ok(Matches(hits)) ELSE Error(ErrConnection)
        /\ UNCHANGED <<client, th, writes, call, index, esUp, mock_mode, req, query>>

\* the cluster stops or starts answering, at any time
ClusterStopsOrStarts ==
    /\ esUp' = ~esUp
    /\ UNCHANGED <<client, th, writes, call, index, mock_mode, req, pc, query, calls,
                   outcome>>

\* the caller takes the result; the services hold nothing of the request
Return ==
    /\ pc = "done"
    /\ pc' = "idle"
    /\ req' = NoRequest
    /\ query' = NoQuery
    /\ calls' = <<>>
    /\ outcome' = NoOutcome
    /\ UNCHANGED <<client, th, writes, call, index, esUp, mock_mode>>

Next ==
    \/ MatchingApplicationService_find_matches
    \/ MatchingService_find_matching_jobs_for_candidate
    \/ MatchingService_find_matching_candidates_for_job
    \/ ElasticsearchJobRepository_find_matches_for_candidate
    \/ ElasticsearchCandidateRepository_find_matches_for_job
    \/ RepositorySearch
    \/ ElasticsearchService_find_matches
    \/ ElasticsearchService_get_document
    \/ ElasticsearchService_es_get
    \/ ElasticsearchService_search
    \/ ClusterStopsOrStarts
    \/ Return

Spec == Init /\ [][Next]_vars

(***************************************************************************)
(* SpecClient: infrastructure/elasticsearch_client.py, one client from its *)
(* construction on.                                                        *)
(***************************************************************************)
MAX_RETRIES == 5
RETRY_DELAY == 5
INITIAL_DELAY == 5

\* MOCK_ELASTICSEARCH in the environment: unset, or one of these strings
EnvValues == {None, Some("true"), Some("TRUE"), Some("false"), Some("1")}

\* os.environ.get('MOCK_ELASTICSEARCH', 'false').lower() == 'true'
EnvRequestsMock(env) == lower(IF IsNone(env) THEN "false" ELSE Val(env)) = "true"

\* how one pass of the retry loop can go: Elasticsearch(**ES_CONFIG) raises, ping()
\* raises, ping() is false, ping() is true, ping() is true and get_alias() raises
AttemptOutcomes == {"constructor_raised", "ping_raised", "ping_false", "ping_true",
                    "indices_raised"}
Raised(o) == o \in {"constructor_raised", "ping_raised"}
Connected(o) == o \in {"ping_true", "indices_raised"}

\* what the cluster's state allows an attempt to see
Possible(o) ==
    CASE o = "constructor_raised" -> TRUE
      [] Connected(o) -> esUp
      [] OTHER -> ~esUp

AttemptEvent(n, o) == [ev |-> "attempt", n |-> n, outcome |-> o, seconds |-> 0]
SleepEvent(n, seconds) == [ev |-> "sleep", n |-> n, outcome |-> "", seconds |-> seconds]

\* a deviation: the loop waits after every attempt that failed, the last one too
BackoffDue_after_every_failure(attempt, o) == ~Connected(o)

\* the except branch: an attempt that raised is followed by a wait unless it was the last
BackoffDue(attempt, o) == Raised(o) /\ attempt < MAX_RETRIES - 1

\* the few collections' contents a client is run against
ClientIndexes ==
    {EmptyIndex,
     [EmptyIndex EXCEPT !.jobs["2"] = Some(EmptyJobDoc),
                        !.candidates["1"] = Some(EmptyCandidateDoc)]}

\* the queries and collections handed to search
ClientQueries ==
    {Query(JOBS_INDEX, <<>>),
     Query(CANDIDATES_INDEX, <<[clause |-> "range", field |-> "salary_expectation",
                                op |-> "lte", bound |-> Some(1)]>>)}

\* __init__ up to its call of _initialize_client
InitClient ==
    /\ call = NoCall
    /\ index \in ClientIndexes
    /\ esUp \in BOOLEAN
    /\ mock_mode = FALSE
    /\ req = NoRequest
    /\ pc = "idle"
    /\ query = NoQuery
    /\ calls = <<>>
    /\ outcome = NoOutcome
    /\ client \in {[NoClient EXCEPT !.pc = "_initialize_client", !.env = e] : e \in EnvValues}
    /\ th = NoThreads
    /\ writes = 0

clientRest == <<call, index, req, pc, query, calls, outcome, th, writes>>

\* _initialize_client up to its retry loop: the environment's mock switch, else
\* the initial wait
ElasticsearchClient_initialize_client ==
    /\ client.pc = "_initialize_client"
    /\ IF EnvRequestsMock(client.env)
       THEN /\ mock_mode' = TRUE
            /\ client' = [client EXCEPT !.pc = "ready"]
       ELSE /\ mock_mode' = mock_mode
            /\ client' = [client EXCEPT !.pc = "attempt", !.attempt = 0,
                             !.events = Append(@, SleepEvent(0, INITIAL_DELAY))]
    /\ UNCHANGED <<esUp>>
    /\ UNCHANGED clientRest

\* one pass of `for attempt in range(MAX_RETRIES)`
ConnectionAttempt ==
    \E o \in AttemptOutcomes :
        /\ client.pc = "attempt"
        /\ client.attempt < MAX_RETRIES
        /\ Possible(o)
        /\ LET tried == Append(client.events, AttemptEvent(client.attempt + 1, o))
               created == client.has_client \/ o # "constructor_raised"
           IN  IF Connected(o)
               THEN client' = [client EXCEPT !.pc = "ready", !.has_client = created,
                                             !.events = tried]
               ELSE client' = [client EXCEPT
                       !.attempt = @ + 1, !.has_client = created,
                       !.events = IF BackoffDue(client.attempt, o)
                                  THEN Append(tried, SleepEvent(client.attempt + 1,
                                                  RETRY_DELAY * (2 ^ client.attempt)))
                                  ELSE tried]
        /\ UNCHANGED <<esUp, mock_mode>>
        /\ UNCHANGED clientRest

\* the loop ran out: fall back to mock mode
RetriesExhausted ==
    /\ client.pc = "attempt"
    /\ client.attempt = MAX_RETRIES
    /\ mock_mode' = TRUE
    /\ client' = [client EXCEPT !.pc = "ready"]
    /\ UNCHANGED <<esUp>>
    /\ UNCHANGED clientRest

InitializeStep ==
    \/ ElasticsearchClient_initialize_client
    \/ ConnectionAttempt
    \/ RetriesExhausted

\* the cluster starts or stops
ClusterChanges ==
    /\ client.pc # ""
    /\ esUp' = ~esUp
    /\ UNCHANGED <<client, mock_mode>>
    /\ UNCHANGED clientRest

\* ElasticsearchClient.ping
ElasticsearchClient_ping ==
    /\ client.pc = "ready"
    /\ client' = [client EXCEPT !.last =
           [op |-> "ping", index |-> "", id |-> "",
            result |-> IF mock_mode THEN TRUE
                       ELSE IF ~client.has_client THEN FALSE
                       ELSE esUp]]
    /\ UNCHANGED <<esUp, mock_mode>>
    /\ UNCHANGED clientRest

\* ElasticsearchClient.get_health
ElasticsearchClient_get_health ==
    /\ client.pc = "ready"
    /\ client' = [client EXCEPT !.last =
           [op |-> "get_health", index |-> "", id |-> "",
            result |-> IF mock_mode THEN [status |-> "yellow", mock_mode |-> TRUE]
                       ELSE IF ~client.has_client
                            THEN [status |-> "unavailable", mock_mode |-> FALSE]
                       ELSE IF esUp THEN [status |-> "green", mock_mode |-> FALSE]
                       ELSE [status |-> "error", mock_mode |-> FALSE]]]
    /\ UNCHANGED <<esUp, mock_mode>>
    /\ UNCHANGED clientRest

\* ElasticsearchClient.get_document called on the client
ClientGetDocument ==
    \E idx \in {JOBS_INDEX, CANDIDATES_INDEX}, doc_id \in Ids :
        /\ client.pc = "ready"
        /\ client' = [client EXCEPT !.last =
               [op |-> "get_document", index |-> idx, id |-> doc_id,
                result |-> ElasticsearchClient_get_document(idx, doc_id)]]
        /\ UNCHANGED <<esUp, mock_mode>>
        /\ UNCHANGED clientRest

\* ElasticsearchClient.search called on the client
ClientSearch ==
    \E idx \in {JOBS_INDEX, CANDIDATES_INDEX}, q \in ClientQueries, hits \in HitLists :
        /\ client.pc = "ready"
        /\ client' = [client EXCEPT !.last =
               [op |-> "search", index |-> idx, id |-> "",
                result |-> ElasticsearchClient_search(idx, q, hits)]]
        /\ UNCHANGED <<esUp, mock_mode>>
        /\ UNCHANGED clientRest

NextClient ==
    \/ ElasticsearchClient_initialize_client
    \/ ConnectionAttempt
    \/ RetriesExhausted
    \/ ClusterChanges
    \/ ElasticsearchClient_ping
    \/ ElasticsearchClient_get_health
    \/ ClientGetDocument
    \/ ClientSearch

\* the constructor runs in one thread and nothing suspends it: each step of
\* _initialize_client that can be taken is taken
SpecClient == InitClient /\ [][NextClient]_vars /\ WF_vars(InitializeStep)


(***************************************************************************)
(* Properties of the pure functions (SpecScore).                           *)
(***************************************************************************)
Applied(op) == call.op = op /\ ~IsNone(call.result)
Result == Val(call.result)

\* the number of skills of `skills` that occur in `others`, equal skills counted once
Overlap(skills, others) ==
    Cardinality({lower(skills[i].name) : i \in DOMAIN skills}
                \cap {lower(others[i].name) : i \in DOMAIN others})

\* every skill of `skills` occurs in `others`
AllOccur(skills, others) ==
    \A i \in DOMAIN skills :
        \E j \in DOMAIN others : lower(skills[i].name) = lower(others[j].name)

SeniorityAccepted(job, cand) ==
    /\ cand.seniority # None
    /\ \E i \in DOMAIN job.seniorities : job.seniorities[i] = cand.seniority[1]

SalaryCovered(job, cand) ==
    /\ job.max_salary # None
    /\ cand.salary_expectation # None
    /\ job.max_salary[1] >= cand.salary_expectation[1]

Bit(b) == IF b THEN 1 ELSE 0

\* C1: with at least one filter enabled, calculate_job_candidate_match returns
\* sum(component * weight) / sum(weight) over the criteria that produced a component:
\* skill (weight 2) whenever enabled, seniority (1.5) and salary (1) only when enabled
\* and matching; it returns 0 when no criterion produced a component.  (Weights are
\* doubled to stay in the integers: 4, 3, 2.)
C1_WeightedAverage ==
    (Applied("calculate_job_candidate_match") /\ ~NoFilterEnabled(call.filters)) =>
        LET job == call.job
            cand == call.cand
            sk == Bit(Enabled(call.filters, "top_skill_match"))
            sn == Bit(Enabled(call.filters, "seniority_match") /\ SeniorityAccepted(job, cand))
            sa == Bit(Enabled(call.filters, "salary_match") /\ SalaryCovered(job, cand))
            m == IF cand.top_skills = <<>> THEN 0 ELSE Overlap(job.top_skills, cand.top_skills)
            n == IF job.top_skills = <<>> THEN 1 ELSE Len(job.top_skills)
            weights2 == 4 * sk + 3 * sn + 2 * sa
            r == Result.value
        IN  /\ Result.error = ""
            /\ IF weights2 = 0
               THEN r.num = 0
               ELSE r.num * (n * weights2) = r.den * (4 * sk * m + n * (3 * sn + 2 * sa))

\* C1 witness: all three filters on, skill ratio 1/2, seniority refused, salary
\* covered: (1/2 * 2 + 1) / 3 = 2/3, the refused seniority left out of both sums
C1_Witness ==
    /\ Applied("calculate_job_candidate_match")
    /\ \A k \in FilterKeys : Enabled(call.filters, k)
    /\ Len(call.job.top_skills) = 2
    /\ Overlap(call.job.top_skills, call.cand.top_skills) = 1
    /\ call.cand.seniority # None
    /\ ~SeniorityAccepted(call.job, call.cand)
    /\ SalaryCovered(call.job, call.cand)
    /\ Result.value = [num |-> 2, den |-> 3]

\* C3 as stated: calculate_job_candidate_match with zero enabled filters is reported
\* as a caller error, not answered with a score
C3_ZeroFiltersIsError ==
    (Applied("calculate_job_candidate_match") /\ NoFilterEnabled(call.filters)) =>
        Result.error # ""

\* C3 amended: with zero enabled filters calculate_job_candidate_match raises nothing
\* and returns the score 0
C3_ZeroFiltersScoreZero ==
    (Applied("calculate_job_candidate_match") /\ NoFilterEnabled(call.filters)) =>
        /\ Result.error = ""
        /\ Result.value.num = 0

\* C3 witness: an empty filter dict, a job and a candidate sharing their one top skill
C3_Witness ==
    /\ Applied("calculate_job_candidate_match")
    /\ DOMAIN call.filters = {}
    /\ Len(call.job.top_skills) = 1
    /\ AllOccur(call.job.top_skills, call.cand.top_skills)
    /\ Result.value.num = 0

\* C6: for all skill lists A (the denominator) and B (the other party's skills),
\* duplicates and case variants included, both skill_match_score functions return a
\* value in [0,1], 0 if A is empty and 1 if every skill of A occurs in B
C6_SkillScoreRange ==
    /\ Applied("Job.skill_match_score") =>
          LET A == call.job.top_skills
              B == call.skills
              r == Result.value
          IN  /\ 0 <= r.num /\ r.num <= r.den
              /\ A = <<>> => r.num = 0
              /\ (A # <<>> /\ AllOccur(A, B)) => r.num = r.den
    /\ Applied("Candidate.skill_match_score") =>
          LET A == call.skills
              B == call.cand.top_skills \o call.cand.other_skills
              r == Result.value
          IN  /\ 0 <= r.num /\ r.num <= r.den
              /\ A = <<>> => r.num = 0
              /\ (A # <<>> /\ AllOccur(A, B)) => r.num = r.den

\* C7: Candidate.skill_match_score(jobTopSkills) is the number of job top skills found
\* in the candidate's whole pool (top and other skills) over the number of job top
\* skills, so a candidate with no top skills but a matching other skill scores above 0
C7_CandidatePoolScore ==
    Applied("Candidate.skill_match_score") =>
        LET A == call.skills
            pool == call.cand.top_skills \o call.cand.other_skills
            r == Result.value
        IN  IF A = <<>> THEN r.num = 0
            ELSE r.num * Len(A) = r.den * Overlap(A, pool)

\* C8: the value calculate_job_candidate_match returns is within [0,1]
C8_ScoreInUnitInterval ==
    Applied("calculate_job_candidate_match") =>
        /\ 0 <= Result.value.num
        /\ Result.value.num <= Result.value.den

\* C8 witness: the upper end is reached, with all three criteria producing 1
C8_Witness ==
    /\ Applied("calculate_job_candidate_match")
    /\ \A k \in FilterKeys : Enabled(call.filters, k)
    /\ call.job.top_skills # <<>>
    /\ SeniorityAccepted(call.job, call.cand)
    /\ SalaryCovered(call.job, call.cand)
    /\ Result.value = [num |-> 1, den |-> 1]

\* C17: for every Job and every Candidate, those without salary, seniority or skills
\* included, to_document followed by to_domain with the entity's id succeeds and
\* gives back the entity's top skills, other skills, seniority/seniorities and salary
C17_RoundTrip ==
    /\ Applied("JobMapper.round_trip") =>
          (Result.error = "" /\ Result.value = call.job)
    /\ Applied("CandidateMapper.round_trip") =>
          (Result.error = "" /\ Result.value = call.cand)

\* the round trip of an entity that has every optional field
C17_CompleteEntityRoundTrips ==
    /\ (Applied("JobMapper.round_trip") /\ call.job.max_salary # None) =>
          (Result.error = "" /\ Result.value = call.job)
    /\ (Applied("CandidateMapper.round_trip") /\ call.cand.salary_expectation # None
           /\ call.cand.seniority # None) =>
          (Result.error = "" /\ Result.value = call.cand)

\* what the documents of the mapper calls hold, read without the mappers
Listed(field) == IF field = Missing THEN <<>> ELSE field[1]
BlankName(n) == n \in {"", " "}
RecognizedLevel(x) ==
    x \in {"none", "junior", "midlevel", "senior", "lead", "principal", "Senior", "SENIOR"}
LevelOf(x) == IF x \in {"Senior", "SENIOR"} THEN "senior" ELSE x
HasBlankSkill(doc) ==
    \/ \E i \in DOMAIN Listed(doc.top_skills) : BlankName(Listed(doc.top_skills)[i])
    \/ \E i \in DOMAIN Listed(doc.other_skills) : BlankName(Listed(doc.other_skills)[i])
NegativeSalary(field) == field \notin {Missing, <<None>>} /\ field[1][1] < 0
RecognizedOf(strs) ==
    LET kept == SelectSeq(strs, RecognizedLevel)
    IN  [i \in DOMAIN kept |-> LevelOf(kept[i])]

\* C18: converting a document whose values are strings and integers, an unrecognized
\* seniority string never fails the conversion: a job keeps its recognized entries in
\* their order and drops the others, a candidate gets an absent seniority; a blank
\* skill name or a negative salary fails the conversion with a validation error
C18_SeniorityDroppedOthersFail ==
    /\ (Applied("JobMapper.to_domain") /\ call.args[1].max_salary # <<None>>) =>
          LET doc == call.args[1]
          IN  IF HasBlankSkill(doc) \/ NegativeSalary(doc.max_salary)
              THEN Result.error = ErrInvalidValue
              ELSE /\ Result.error = ""
                   /\ Result.value.seniorities = RecognizedOf(Listed(doc.seniorities))
                   /\ Len(Result.value.top_skills) = Len(Listed(doc.top_skills))
                   /\ Len(Result.value.other_skills) = Len(Listed(doc.other_skills))
    /\ (Applied("CandidateMapper.to_domain")
           /\ call.args[1].salary_expectation # <<None>>
           /\ call.args[1].seniority # <<None>>) =>
          LET doc == call.args[1]
          IN  IF HasBlankSkill(doc) \/ NegativeSalary(doc.salary_expectation)
              THEN Result.error = ErrInvalidValue
              ELSE /\ Result.error = ""
                   /\ Result.value.seniority =
                          IF doc.seniority # Missing /\ RecognizedLevel(doc.seniority[1][1])
                          THEN Some(LevelOf(doc.seniority[1][1])) ELSE None
                   /\ Len(Result.value.top_skills) = Len(Listed(doc.top_skills))
                   /\ Len(Result.value.other_skills) = Len(Listed(doc.other_skills))

\* C18 witness: a job document listing 'Senior', 'bogus', 'junior' converts to a job
\* accepting senior and junior, in that order
C18_Witness ==
    /\ Applied("JobMapper.to_domain")
    /\ call.args[1].seniorities = << <<"Senior", "bogus", "junior">> >>
    /\ Result.error = ""
    /\ Result.value.seniorities = <<"senior", "junior">>

\* a negative salary fails the conversion of a candidate document
C18_WitnessNegativeSalary ==
    /\ Applied("CandidateMapper.to_domain")
    /\ call.args[1].salary_expectation = <<Some(-1)>>
    /\ call.args[1].seniority = <<Some("bogus")>>
    /\ ~HasBlankSkill(call.args[1])
    /\ Result.error = ErrInvalidValue

\* the names of the model that are the same once trimmed and with case ignored
NameClass(n) ==
    CASE n \in {"Python", " Python ", "python"} -> "PYTHON"
      [] n = "AWS" -> "AWS"
      [] OTHER -> ""

\* C19: two Skills are equal exactly when their trimmed names are the same ignoring
\* case; equal Skills have equal hashes and count as one element of a set; a Skill is
\* not equal to a value that is not a Skill; a blank name is refused at construction
C19_SkillEquality ==
    Applied("Skill.__eq__") =>
        LET n == call.args[1]
            o == call.args[2]
        IN  IF BlankName(n) \/ (o.type = "Skill" /\ BlankName(o.name))
            THEN Result.error = ErrInvalidValue
            ELSE /\ Result.error = ""
                 /\ Result.value.eq <=>
                        (o.type = "Skill" /\ NameClass(n) = NameClass(o.name))
                 /\ Result.value.eq => Result.value.same_hash
                 /\ Result.value.set_size = IF Result.value.eq THEN 1 ELSE 2

\* C19 witness: Skill(' Python ') and Skill('python') are equal, hash alike and make
\* a set of one element
C19_Witness ==
    /\ Applied("Skill.__eq__")
    /\ call.args = <<" Python ", [type |-> "Skill", name |-> "python"]>>
    /\ Result.error = ""
    /\ Result.value = [eq |-> TRUE, same_hash |-> TRUE, set_size |-> 1]

\* the salary range clauses of a clause list
RangeBounds(should) ==
    {should[j].bound : j \in {i \in DOMAIN should : should[i].clause = "range"}}

\* C20: Salary(v) fails with a validation error for every negative v and succeeds for
\* every v >= 0, 0 included; a Salary of 0 is a present salary: the compatibility
\* predicates compare it and the repositories build the salary clause from it
C20_SalaryNonNegativeZeroPresent ==
    /\ Applied("Salary") =>
          LET v == call.args[1][1]
          IN  IF v < 0 THEN Result.error = ErrInvalidValue
              ELSE Result.error = "" /\ Result.value = Some(v) /\ Result.value[1] >= 0
    /\ Applied("Job.matches_candidate_salary") =>
          LET m == call.job.max_salary
              e == call.args[1]
          IN  Result.value = (m # None /\ e # None /\ m[1] >= e[1])
    /\ Applied("Candidate.matches_job_salary") =>
          LET e == call.cand.salary_expectation
              m == call.args[1]
          IN  Result.value = (m # None /\ e # None /\ m[1] >= e[1])
    /\ Applied("find_matches_for_job") =>
          RangeBounds(Result.value) =
              IF Enabled(call.filters, "salary_match") /\ call.job.max_salary # None
              THEN {call.job.max_salary} ELSE {}
    /\ Applied("find_matches_for_candidate") =>
          RangeBounds(Result.value) =
              IF Enabled(call.filters, "salary_match") /\ call.cand.salary_expectation # None
              THEN {call.cand.salary_expectation} ELSE {}

\* C20 witness: a job paying 0 covers an expectation of 0
C20_Witness ==
    /\ Applied("Job.matches_candidate_salary")
    /\ call.job.max_salary = Some(0)
    /\ call.args[1] = Some(0)
    /\ Result.value = TRUE

\* Salary(-1) is refused, and a candidate expecting 0 gets the clause max_salary >= 0
C20_WitnessNegative ==
    /\ Applied("Salary")
    /\ call.args[1] = Some(-1)
    /\ Result.error = ErrInvalidValue
C20_WitnessZeroClause ==
    /\ Applied("find_matches_for_candidate")
    /\ call.cand.salary_expectation = Some(0)
    /\ RangeBounds(Result.value) = {Some(0)}

\* C21: Seniority.from_string succeeds exactly for the strings that, lower-cased,
\* are one of none, junior, midlevel, senior, lead, principal, and returns that
\* level; for every other string it fails with a validation error listing the six
\* valid values
C21_SeniorityFromString ==
    Applied("Seniority.from_string") =>
        LET x == call.args[1]
        IN  IF RecognizedLevel(x)
            THEN Result.error = "" /\ Result.value = LevelOf(x)
            ELSE /\ Result.error = ErrInvalidValue
                 /\ {Result.listed[i] : i \in DOMAIN Result.listed} =
                        {"none", "junior", "midlevel", "senior", "lead", "principal"}

\* C21 witness: 'SENIOR' gives the level senior
C21_Witness ==
    /\ Applied("Seniority.from_string")
    /\ call.args[1] = "SENIOR"
    /\ Result.error = ""
    /\ Result.value = "senior"

\* a string with surrounding blanks is refused, the six levels listed
C21_WitnessRefused ==
    /\ Applied("Seniority.from_string")
    /\ call.args[1] = " senior "
    /\ Result.error = ErrInvalidValue
    /\ Len(Result.listed) = 6

\* C22: Job.matches_candidate_salary(expectation) is true iff the job has a max
\* salary, the expectation is present and max salary >= expectation, and
\* Candidate.matches_job_salary(job.max_salary) gives the same answer on every pair
C22_SalaryPredicates ==
    Applied("matches_salary") =>
        LET m == call.job.max_salary
            e == call.cand.salary_expectation
        IN  /\ Result.value.job_side <=> (m # None /\ e # None /\ m[1] >= e[1])
            /\ Result.value.candidate_side = Result.value.job_side

\* C22 witness: a job paying exactly the expectation, accepted from both sides
C22_Witness ==
    /\ Applied("matches_salary")
    /\ call.job.max_salary = Some(1)
    /\ call.cand.salary_expectation = Some(1)
    /\ Result.value = [job_side |-> TRUE, candidate_side |-> TRUE]

\* C23: Job.matches_candidate_seniority(level) is true iff the level is present and
\* occurs in the job's list of acceptable levels, false when the level is absent or
\* the list is empty, and Candidate.matches_job_seniority(job.seniorities) gives the
\* same answer on every pair
C23_SeniorityPredicates ==
    Applied("matches_seniority") =>
        LET l == call.job.seniorities
            x == call.cand.seniority
        IN  /\ Result.value.job_side <=>
                   (x # None /\ \E i \in DOMAIN l : l[i] = x[1])
            /\ (x = None \/ l = <<>>) => ~Result.value.job_side
            /\ Result.value.candidate_side = Result.value.job_side

\* C23 witness: a senior candidate and a job that lists no level do not match
C23_Witness ==
    /\ Applied("matches_seniority")
    /\ call.job.seniorities = <<>>
    /\ call.cand.seniority = Some("senior")
    /\ Result.value = [job_side |-> FALSE, candidate_side |-> FALSE]

\* a candidate of level 'none' is accepted by a job listing junior and none
C23_WitnessAccepted ==
    /\ Applied("matches_seniority")
    /\ call.job.seniorities = <<"junior", "none">>
    /\ call.cand.seniority = Some("none")
    /\ Result.value = [job_side |-> TRUE, candidate_side |-> TRUE]

\* C30: whatever the id string a document is stored under, get_by_id returns an
\* entity without raising, and documents stored under different id strings give
\* entities with different ids
C30_IdsOpaque ==
    Applied("get_by_id") =>
        /\ \A i \in 1..2 : Result.value[i].error = "" /\ Result.value[i].found
        /\ call.args[2] # call.args[3] => Result.value[1].id # Result.value[2].id

\* the ids the mappers can convert: a UUID text or decimal digits
C30_ConvertibleIdsReturn ==
    (Applied("get_by_id") /\ (IsUUID(call.args[2]) \/ IsDigits(call.args[2]))) =>
        Result.value[1].error = "" /\ Result.value[1].found

\* C29: for a source document with every field present, skill names without
\* surrounding blanks and valid lower-case seniority strings, every filter set with
\* a filter enabled and both directions, the repository and ElasticsearchService
\* send the same clauses in the same order to the same collection
C29_BuildersAgree ==
    Applied("query_builders") =>
        /\ Result.value.repository.error = ""
        /\ Result.value.service.error = ""
        /\ Result.value.repository.index = Result.value.service.index
        /\ Result.value.repository.should = Result.value.service.should

\* the documents the builders do agree on: those the mapper accepts
C29_AgreeOnAcceptedDocuments ==
    (Applied("query_builders") /\ Result.value.repository.error = "") =>
        Result.value.repository = Result.value.service

\* both builders sending salary, skill and seniority clause for a job
C29_WitnessAgree ==
    /\ Applied("query_builders")
    /\ call.args[1] = "job"
    /\ Result.value.repository.error = ""
    /\ Len(Result.value.repository.should) = 3
    /\ Result.value.repository = Result.value.service


(***************************************************************************)
(* Properties of the match requests (Spec).                                *)
(***************************************************************************)
Done(entry) == pc = "done" /\ req.entry = entry

SearchCalls == {i \in DOMAIN calls : calls[i].op = "search"}
GetCalls == {i \in DOMAIN calls : calls[i].op = "get"}

\* the cluster answers now as it did at every fetch of the request, so that the
\* source read now is the source the request read
SourceAsFetched == \A i \in GetCalls : calls[i].up = esUp

\* the cluster answered every health check and every fetch of the request
Answered == \A i \in DOMAIN calls : calls[i].op \in {"health", "get"} => calls[i].up

\* the collection a request's source lives in, and what the index holds there
SourceIndex == IF req.doc_type = "job" THEN JOBS_INDEX ELSE CANDIDATES_INDEX
SourceAbsent ==
    IF mock_mode THEN req.id # "1" ELSE index[SourceIndex][req.id] = None

\* C2: a find-matches request with no filter enabled always fails with the 'at least
\* one filter must be enabled' error, whatever the id, the document type and the
\* contents or reachability of the index, and executes no search; for
\* MatchingApplicationService.find_matches and for ElasticsearchService.find_matches
C2_NoFilterAlwaysValidationError ==
    (pc = "done" /\ NoFilterEnabled(req.filters)) =>
        /\ outcome = Error(ErrNoFilter)
        /\ SearchCalls = {}

\* the source entity of an orchestrated request, as the repository reads it
SourceEntity ==
    IF req.doc_type = "job"
    THEN ElasticsearchJobRepository_get_by_id(req.id)
    ELSE ElasticsearchCandidateRepository_get_by_id(req.id)

\* an enabled filter whose field the source entity lacks
LacksNeededField(entity) ==
    \/ /\ Enabled(req.filters, "salary_match")
       /\ IF req.doc_type = "job" THEN entity.max_salary = None
          ELSE entity.salary_expectation = None
    \/ /\ Enabled(req.filters, "top_skill_match")
       /\ entity.top_skills = <<>>
    \/ /\ Enabled(req.filters, "seniority_match")
       /\ IF req.doc_type = "job" THEN entity.seniorities = <<>>
          ELSE entity.seniority = None

\* C4: on the orchestrated path, in both directions, a request with a filter enabled
\* whose field the source entity lacks fails with a missing-field error; it never
\* returns an empty or partial-criteria result
C4_MissingFieldFails ==
    (Done("application") /\ req.doc_type \in {"job", "candidate"} /\ SourceAsFetched
        /\ SourceEntity.found /\ LacksNeededField(SourceEntity.entity)) =>
        outcome = Error(ErrMissingField)

\* C5: in every query sent to the index a salary range clause has a non-null bound,
\* and a salary clause asked of a source document whose salary is absent or null ends
\* the request with a missing-field error
C5_SalaryBoundNeverNull ==
    /\ \A i \in SearchCalls :
          \A j \in DOMAIN calls[i].should :
              calls[i].should[j].clause = "range" => calls[i].should[j].bound # None
    /\ (Done("elasticsearch_service") /\ Answered /\ index[SourceIndex][req.id] # None
           /\ Enabled(req.filters, "salary_match")
           /\ LET doc == Val(index[SourceIndex][req.id])
                  field == IF req.doc_type = "job" THEN doc.max_salary
                           ELSE doc.salary_expectation
              IN  field \in {Missing, <<None>>}) =>
          outcome = Error(ErrMissingField)

\* C9: a match request handed to the MatchingService whose source entity is absent
\* from its collection fails with a not-found error, in both directions, and no
\* search is executed for it
C9_AbsentSourceNotFound ==
    (Done("application") /\ calls # <<>> /\ SourceAbsent) =>
        /\ outcome = Error(ErrNotFound)
        /\ SearchCalls = {}

\* C9 witness: a candidate request for id "2" against a reachable index whose
\* candidates collection holds a document under another id
C9_Witness ==
    /\ Done("application")
    /\ req.doc_type = "candidate"
    /\ req.id = "2"
    /\ ~mock_mode /\ esUp
    /\ index[CANDIDATES_INDEX]["1"] # None
    /\ SourceAbsent
    /\ outcome = Error(ErrNotFound)
    /\ Len(calls) = 1

\* C10: every successful match request issues exactly one fetch of the source and
\* then exactly one search, in that order
C10_OneFetchThenOneSearch ==
    (Done("application") /\ outcome.status = "ok") =>
        /\ Len(calls) = 2
        /\ calls[1].op = "get"
        /\ calls[2].op = "search"

\* C11: a match request whose client reaches for the index while the cluster is
\* unreachable fails with an explicit unavailable error: it never reports the source
\* as not found and never returns a match list
C11_UnavailableIsExplicit ==
    (pc = "done" /\ ~mock_mode /\ \E i \in DOMAIN calls : ~calls[i].up) =>
        outcome = Error(ErrConnection)

\* the hits the last search of the request got back
LastCall == calls[Len(calls)]
Searched == calls # <<>> /\ LastCall.op = "search"

\* C12: the matches a request returns have the length and the order of the hits its
\* search got back, the k-th match carrying the id and the score of the k-th hit
C12_MatchesAreTheHits ==
    (pc = "done" /\ Searched /\ outcome.status = "ok") =>
        /\ Len(outcome.matches) = Len(LastCall.hits)
        /\ \A k \in DOMAIN LastCall.hits :
              /\ outcome.matches[k].id = LastCall.hits[k]._id
              /\ outcome.matches[k].relevance_score = LastCall.hits[k]._score

\* C12 witness: the index answered an orchestrated request with the lower-scored hit
\* first, and the matches keep that order
C12_Witness ==
    /\ Done("application")
    /\ Searched
    /\ LastCall.hits = <<Hit2, Hit1>>
    /\ outcome.status = "ok"
    /\ outcome.matches[1].id = "2"
    /\ outcome.matches[2].id = "1"

\* the source document of a direct (ElasticsearchService) request
SourceDoc == Val(index[SourceIndex][req.id])

\* an enabled filter whose field the source document lacks, as the clause builders
\* of ElasticsearchService read it
DocLacksNeededField(doc) ==
    \/ /\ Enabled(req.filters, "salary_match")
       /\ IF req.doc_type = "job" THEN ~Has(doc.max_salary)
          ELSE ~Has(doc.salary_expectation)
    \/ /\ Enabled(req.filters, "top_skill_match")
       /\ doc.top_skills \in {Missing, << <<>> >>}
    \/ /\ Enabled(req.filters, "seniority_match")
       /\ IF req.doc_type = "job" THEN doc.seniorities \in {Missing, << <<>> >>}
          ELSE doc.seniority \in {Missing, <<None>>, <<Some("")>>}

\* the request is over, its source was found and has every field its filters need
SourceComplete ==
    /\ pc = "done"
    /\ req.doc_type \in {"job", "candidate"}
    /\ ~NoFilterEnabled(req.filters)
    /\ IF req.entry = "application"
       THEN SourceAsFetched /\ SourceEntity.found
            /\ ~LacksNeededField(SourceEntity.entity)
       ELSE /\ Answered
            /\ index[SourceIndex][req.id] # None
            /\ ~DocLacksNeededField(SourceDoc)

Counterpart == IF req.doc_type = "job" THEN CANDIDATES_INDEX ELSE JOBS_INDEX

\* the clauses of the composed query that belong to a filter
ClausesOf(k) ==
    LET fields == CASE k = "salary_match" -> {"salary_expectation", "max_salary"}
                    [] k = "top_skill_match" -> {"top_skills"}
                    [] k = "seniority_match" -> {"seniority", "seniorities"}
    IN  {j \in DOMAIN query.should : query.should[j].field \in fields}

\* C13: for a source that has every field the enabled filters need, the composed
\* query holds exactly one clause per enabled filter and none for a disabled one,
\* has top-level minimum_should_match 1, and is sent to the counterpart collection
\* with a result bound of 100
C13_OneClausePerEnabledFilter ==
    SourceComplete =>
        /\ Searched
        /\ LastCall.should = query.should
        /\ LastCall.index = Counterpart
        /\ query.index = Counterpart
        /\ query.minimum_should_match = 1
        /\ query.size = 100
        /\ \A k \in FilterKeys :
              Cardinality(ClausesOf(k)) = IF Enabled(req.filters, k) THEN 1 ELSE 0
        /\ Len(query.should) = Cardinality({k \in FilterKeys : Enabled(req.filters, k)})

\* C13 witness: a job read from the index with salary and top skills, both filters
\* on and seniority off: two clauses sent to the candidates collection
C13_Witness ==
    /\ Done("application")
    /\ ~mock_mode
    /\ req.doc_type = "job"
    /\ Enabled(req.filters, "salary_match")
    /\ Enabled(req.filters, "top_skill_match")
    /\ ~Enabled(req.filters, "seniority_match")
    /\ SourceComplete
    /\ Len(query.should) = 2
    /\ LastCall.index = CANDIDATES_INDEX

\* the top skills of the request's source, as the path of the request reads them
SourceTopSkills ==
    IF req.entry = "application" THEN SkillNames(SourceEntity.entity.top_skills)
    ELSE IF Has(SourceDoc.top_skills) THEN SourceDoc.top_skills[1] ELSE <<>>

\* C14: the skill clause of a composed query lists exactly the source's top skills,
\* targets the counterpart's top_skills field, carries the boost 2.0 and has the
\* threshold min(number of source top skills, 2): 1 for a single skill, 2 for two or
\* more; ElasticsearchService building it from a source whose top-skill list is
\* missing or empty ends the request with an error and without a search
C14_SkillClause ==
    /\ (pc = "done" /\ Searched /\ SourceAsFetched
           /\ req.doc_type \in {"job", "candidate"}) =>
          \A j \in ClausesOf("top_skill_match") :
              LET c == query.should[j]
                  n == Len(SourceTopSkills)
              IN  /\ c.clause = "terms"
                  /\ c.field = "top_skills"
                  /\ c.values = SourceTopSkills
                  /\ c.boost = [num |-> 2, den |-> 1]
                  /\ n >= 1
                  /\ c.minimum_should_match = IF n = 1 THEN 1 ELSE 2
    /\ (Done("elasticsearch_service") /\ Answered /\ index[SourceIndex][req.id] # None
           /\ Enabled(req.filters, "top_skill_match")
           /\ SourceTopSkills = <<>>) =>
          /\ outcome = Error(ErrMissingField)
          /\ SearchCalls = {}

\* C14 witness: a source with a single top skill, whose clause has threshold 1
C14_Witness ==
    /\ Done("elasticsearch_service")
    /\ Searched
    /\ Len(SourceTopSkills) = 1
    /\ \E j \in ClausesOf("top_skill_match") :
           /\ query.should[j].minimum_should_match = 1
           /\ query.should[j].values = SourceTopSkills

\* a source whose top-skill list is empty, refused by ElasticsearchService
C14_WitnessEmpty ==
    /\ Done("elasticsearch_service")
    /\ Answered /\ index[SourceIndex][req.id] # None
    /\ req.filters = [top_skill_match |-> TRUE]
    /\ SourceDoc.top_skills = << <<>> >>
    /\ outcome = Error(ErrMissingField)

\* the seniority data of the request's source, as the path of the request reads it:
\* a job's list of levels, a candidate's level (None when it has none)
SourceSeniorities ==
    IF req.entry = "application" THEN SourceEntity.entity.seniorities
    ELSE IF Has(SourceDoc.seniorities) THEN SourceDoc.seniorities[1] ELSE <<>>
SourceSeniority ==
    IF req.entry = "application" THEN SourceEntity.entity.seniority
    ELSE IF Has(SourceDoc.seniority) /\ SourceDoc.seniority[1] # Some("")
         THEN SourceDoc.seniority[1] ELSE None

\* C15: the seniority clause built from a job is a terms filter on the candidates'
\* 'seniority' field listing the job's levels; built from a candidate it is a term
\* filter on the jobs' 'seniorities' field with the candidate's level;
\* ElasticsearchService building it from a source with no seniority data (absent or
\* empty), in either direction, ends the request with an error and without a search
C15_SeniorityClause ==
    /\ (pc = "done" /\ Searched /\ SourceAsFetched
           /\ req.doc_type \in {"job", "candidate"}) =>
          \A j \in ClausesOf("seniority_match") :
              LET c == query.should[j]
              IN  IF req.doc_type = "job"
                  THEN /\ c.clause = "terms"
                       /\ c.field = "seniority"
                       /\ c.values = SourceSeniorities
                       /\ c.values # <<>>
                  ELSE /\ c.clause = "term"
                       /\ c.field = "seniorities"
                       /\ SourceSeniority # None
                       /\ c.value = Val(SourceSeniority)
    /\ (Done("elasticsearch_service") /\ Answered /\ index[SourceIndex][req.id] # None
           /\ req.doc_type \in {"job", "candidate"}
           /\ Enabled(req.filters, "seniority_match")
           /\ IF req.doc_type = "job" THEN SourceSeniorities = <<>>
              ELSE SourceSeniority = None) =>
          /\ outcome = Error(ErrMissingField)
          /\ SearchCalls = {}

\* C15 witness: a job document with one acceptable level, asked through
\* ElasticsearchService with the seniority filter: a terms clause on 'seniority'
C15_Witness ==
    /\ Done("elasticsearch_service")
    /\ Searched
    /\ req.doc_type = "job"
    /\ SourceSeniorities = <<"senior">>
    /\ \E j \in ClausesOf("seniority_match") :
           /\ query.should[j].clause = "terms"
           /\ query.should[j].values = <<"senior">>

\* a candidate document whose seniority is null, refused by ElasticsearchService
C15_WitnessEmpty ==
    /\ Done("elasticsearch_service")
    /\ Answered /\ index[SourceIndex][req.id] # None
    /\ req.doc_type = "candidate"
    /\ req.filters = [seniority_match |-> TRUE]
    /\ SourceDoc.seniority = <<None>>
    /\ outcome = Error(ErrMissingField)

\* the salary of the request's source, as the path of the request reads it
SourceSalary ==
    IF req.entry = "application"
    THEN IF req.doc_type = "job" THEN SourceEntity.entity.max_salary
         ELSE SourceEntity.entity.salary_expectation
    ELSE LET field == IF req.doc_type = "job" THEN SourceDoc.max_salary
                      ELSE SourceDoc.salary_expectation
         IN  IF Has(field) THEN field[1] ELSE None

\* C16: the salary clause built from a job is the range 'salary_expectation <= the
\* job's max_salary' (lte) and the one built from a candidate the range 'max_salary
\* >= the candidate's salary_expectation' (gte); the bound is the source's salary
\* value unchanged and inclusive
C16_SalaryClause ==
    (pc = "done" /\ Searched /\ SourceAsFetched /\ req.doc_type \in {"job", "candidate"}) =>
        \A j \in ClausesOf("salary_match") :
            LET c == query.should[j]
            IN  /\ c.clause = "range"
                /\ c.bound = SourceSalary
                /\ IF req.doc_type = "job"
                   THEN c.field = "salary_expectation" /\ c.op = "lte"
                   ELSE c.field = "max_salary" /\ c.op = "gte"

\* C16 witness: a job document with max_salary 1 asked through ElasticsearchService
\* with the salary filter: the clause salary_expectation lte 1
C16_Witness ==
    /\ Done("elasticsearch_service")
    /\ Searched
    /\ req.doc_type = "job"
    /\ SourceSalary = Some(1)
    /\ \E j \in ClausesOf("salary_match") :
           /\ query.should[j].op = "lte"
           /\ query.should[j].bound = Some(1)

\* the errors raised as ValueError by the application service's own validation
ValidationErrors == {ErrNoFilter, ErrDocType}
UnknownType == req.doc_type \notin {"job", "candidate"}

\* C25: an application request whose document type is neither 'job' nor 'candidate'
\* ends at once in a validation error (ValueError), whatever its id and filters, with
\* no fetch and no search made, and never enters a step of a known type
C25_UnknownTypeRejected ==
    (req.entry = "application" /\ UnknownType) =>
        /\ pc = "done"
        /\ outcome.status = "error"
        /\ outcome.error \in ValidationErrors
        /\ (~NoFilterEnabled(req.filters) => outcome.error = ErrDocType)
        /\ calls = <<>>

\* C25 witness: an unknown type with a filter enabled, refused for its type
C25_Witness ==
    /\ Done("application")
    /\ UnknownType
    /\ req.filters["salary_match"]
    /\ outcome = Error(ErrDocType)
    /\ calls = <<>>

(***************************************************************************)
(* SpecConcurrent: match requests of several request threads, served by    *)
(* the one MatchingApplicationService of interface/controllers.py, next to *)
(* a writer of the index.                                                  *)
(***************************************************************************)
MaxWrites == 1
Threads == {"t1", "t2"}

JobV1 == [top_skills |-> << <<"Python">> >>, other_skills |-> Missing,
          seniorities |-> << <<"senior">> >>, max_salary |-> <<Some(0)>>]
JobV2 == [JobV1 EXCEPT !.top_skills = << <<"Python", "AWS">> >>,
                       !.max_salary = <<Some(1)>>]
CandidateV1 == [top_skills |-> << <<"AWS">> >>, other_skills |-> Missing,
                seniority |-> <<Some("senior")>>, salary_expectation |-> <<Some(1)>>]
CandidateV2 == [CandidateV1 EXCEPT !.salary_expectation = <<Some(0)>>]

\* what a collection may hold under id "1"
VersionsOf(collection) ==
    IF collection = JOBS_INDEX THEN {None, Some(JobV1), Some(JobV2)}
    ELSE {None, Some(CandidateV1), Some(CandidateV2)}

ConcurrentIndexes ==
    {[EmptyIndex EXCEPT !.jobs["1"] = j, !.candidates["1"] = c] :
        j \in VersionsOf(JOBS_INDEX), c \in VersionsOf(CANDIDATES_INDEX)}

ConcurrentFilters ==
    {[k \in FilterKeys |-> FALSE],
     [k \in FilterKeys |-> k = "salary_match"],
     [k \in FilterKeys |-> TRUE]}

IdleThread == [pc |-> "idle", req |-> NoRequest, query |-> NoQuery, calls |-> <<>>,
               outcome |-> NoOutcome, seen |-> <<>>]

InitConcurrent ==
    /\ call = NoCall
    /\ index \in ConcurrentIndexes
    /\ esUp = TRUE
    /\ mock_mode \in BOOLEAN
    /\ req = NoRequest
    /\ pc = "idle"
    /\ query = NoQuery
    /\ calls = <<>>
    /\ outcome = NoOutcome
    /\ client = NoClient
    /\ th = [t \in Threads |-> IdleThread]
    /\ writes = 0

concurrentRest == <<call, req, pc, query, calls, outcome, client>>
shared == <<index, esUp, mock_mode, writes>>

\* the collection the source of a request lives in, and the one it searches
SourceOf(doc_type) == IF doc_type = "job" THEN JOBS_INDEX ELSE CANDIDATES_INDEX
TargetOf(doc_type) == IF doc_type = "job" THEN CANDIDATES_INDEX ELSE JOBS_INDEX

\* get_by_id of the source's repository
SourceGetById(doc_type, id) ==
    IF doc_type = "job" THEN ElasticsearchJobRepository_get_by_id(id)
    ELSE ElasticsearchCandidateRepository_get_by_id(id)

\* should_queries of the target's repository
SourceShould(doc_type, entity, filters) ==
    IF doc_type = "job" THEN find_matches_for_job_should(entity, filters)
    ELSE find_matches_for_candidate_should(entity, filters)

\* a thread enters MatchingApplicationService.find_matches
Thread_find_matches(t) ==
    \E id \in Ids, doc_type \in DocTypes, filters \in ConcurrentFilters :
        /\ th[t].pc = "idle"
        /\ th' = [th EXCEPT ![t] =
              [IdleThread EXCEPT
                 !.req = [entry |-> "application", id |-> id, doc_type |-> doc_type,
                          filters |-> filters],
                 !.pc = IF \A k \in FilterKeys : ~filters[k] THEN "done"
                        ELSE IF doc_type \in {"job", "candidate"} THEN "service"
                        ELSE "done",
                 !.outcome = IF \A k \in FilterKeys : ~filters[k] THEN Error(ErrNoFilter)
                             ELSE IF doc_type \in {"job", "candidate"} THEN NoOutcome
                             ELSE Error(ErrDocType)]]
        /\ UNCHANGED shared
        /\ UNCHANGED concurrentRest

\* MatchingService.find_matching_*: get_by_id and the existence check
Thread_MatchingService(t) ==
    /\ th[t].pc = "service"
    /\ LET r == th[t].req
           src == SourceOf(r.doc_type)
           g == SourceGetById(r.doc_type, r.id)
       IN  th' = [th EXCEPT ![t] =
              [@ EXCEPT
                 !.calls = Append(@, GetCall(src, r.id)),
                 !.seen = Append(@, ElasticsearchClient_get_document(src, r.id)),
                 !.pc = IF g.error # "" \/ ~g.found THEN "done" ELSE "repository",
                 !.outcome = IF g.error # "" THEN Error(g.error)
                             ELSE IF ~g.found THEN Error(ErrNotFound)
                             ELSE @]]
    /\ UNCHANGED shared
    /\ UNCHANGED concurrentRest

\* a repository's find_matches_for_*: its own get_by_id and the query
Thread_Repository(t) ==
    /\ th[t].pc = "repository"
    /\ LET r == th[t].req
           src == SourceOf(r.doc_type)
           g == SourceGetById(r.doc_type, r.id)
           should_queries == SourceShould(r.doc_type, g.entity, r.filters)
           failed == g.error # "" \/ ~g.found
       IN  th' = [th EXCEPT ![t] =
              [@ EXCEPT
                 !.calls = Append(@, GetCall(src, r.id)),
                 !.seen = Append(@, ElasticsearchClient_get_document(src, r.id)),
                 !.pc = IF failed \/ should_queries = <<>> THEN "done" ELSE "search",
                 !.outcome = IF g.error # "" THEN Error(g.error)
                             ELSE IF ~g.found THEN Error(ErrNotFound)
                             ELSE IF should_queries = <<>> THEN Ok(<<>>)
                             ELSE @,
                 !.query = IF failed \/ should_queries = <<>> THEN @
                           ELSE Query(TargetOf(r.doc_type), should_queries)]]
    /\ UNCHANGED shared
    /\ UNCHANGED concurrentRest

\* a deviation: the query kept on the repository object the threads share, so a
\* thread may send the one another thread built
QuerySent_shared(t) ==
    th[CHOOSE u \in Threads : th[u].query # NoQuery].query

\* the query a thread's search sends: the local variable it built
QuerySent(t) == th[t].query

\* a repository's search and the formatting of its hits
Thread_Search(t) ==
    \E hits \in HitLists :
        /\ th[t].pc = "search"
        /\ LET q == QuerySent(t)
               found == ElasticsearchClient_search(q.index, q, hits)
           IN  th' = [th EXCEPT ![t] =
                  [@ EXCEPT !.calls = Append(@, SearchCall(q, found)),
                            !.outcome = Ok(Matches(found)),
                            !.pc = "done"]]
        /\ UNCHANGED shared
        /\ UNCHANGED concurrentRest

\* the caller takes the result
Thread_Return(t) ==
    /\ th[t].pc = "done"
    /\ th' = [th EXCEPT ![t] = IdleThread]
    /\ UNCHANGED shared
    /\ UNCHANGED concurrentRest

\* another client of the cluster indexes, updates or deletes a document
IndexWrite ==
    \E collection \in {JOBS_INDEX, CANDIDATES_INDEX} :
        \E d \in VersionsOf(collection) :
            /\ writes < MaxWrites
            /\ d # index[collection]["1"]
            /\ index' = [index EXCEPT ![collection]["1"] = d]
            /\ writes' = writes + 1
            /\ UNCHANGED <<th, esUp, mock_mode>>
            /\ UNCHANGED concurrentRest

NextConcurrent ==
    \/ \E t \in Threads : Thread_find_matches(t)
    \/ \E t \in Threads : Thread_MatchingService(t)
    \/ \E t \in Threads : Thread_Repository(t)
    \/ \E t \in Threads : Thread_Search(t)
    \/ \E t \in Threads : Thread_Return(t)
    \/ IndexWrite

SpecConcurrent == InitConcurrent /\ [][NextConcurrent]_vars

\* the same request run alone against the index as it is, its search answered hits:
\* the outcome and the calls of the steps above taken one after the other
RunAlone(r, hits) ==
    IF \A k \in FilterKeys : ~r.filters[k]
    THEN [outcome |-> Error(ErrNoFilter), calls |-> <<>>]
    ELSE IF r.doc_type \notin {"job", "candidate"}
    THEN [outcome |-> Error(ErrDocType), calls |-> <<>>]
    ELSE LET src == SourceOf(r.doc_type)
             g == SourceGetById(r.doc_type, r.id)
             fetch == GetCall(src, r.id)
             should_queries == SourceShould(r.doc_type, g.entity, r.filters)
             q == Query(TargetOf(r.doc_type), should_queries)
             found == ElasticsearchClient_search(q.index, q, hits)
         IN  IF g.error # "" THEN [outcome |-> Error(g.error), calls |-> <<fetch>>]
             ELSE IF ~g.found THEN [outcome |-> Error(ErrNotFound), calls |-> <<fetch>>]
             ELSE IF should_queries = <<>>
             THEN [outcome |-> Ok(<<>>), calls |-> <<fetch, fetch>>]
             ELSE [outcome |-> Ok(Matches(found)),
                   calls |-> <<fetch, fetch, SearchCall(q, found)>>]

(***************************************************************************)
(* Properties of the client (SpecClient).                                  *)
(***************************************************************************)
Ready == client.pc = "ready"
Attempts == {i \in DOMAIN client.events : client.events[i].ev = "attempt"}
FailedAttempts == {i \in Attempts : ~Connected(client.events[i].outcome)}
BackoffWaits == {i \in DOMAIN client.events :
                    client.events[i].ev = "sleep" /\ client.events[i].n > 0}

\* the safety part of C26, in every state of the initialization and after it
C26_AttemptsBounded ==
    /\ EnvRequestsMock(client.env) => (Attempts = {} /\ (Ready => mock_mode))
    /\ Cardinality(Attempts) <= MAX_RETRIES
    /\ ~Ready => ~mock_mode
    /\ \A i \in Attempts \ FailedAttempts :
           i = Len(client.events) /\ Ready /\ ~mock_mode
    /\ (Ready /\ ~EnvRequestsMock(client.env)) =>
           /\ mock_mode <=> Cardinality(FailedAttempts) = MAX_RETRIES
           /\ ~mock_mode <=> (Attempts \ FailedAttempts # {})
    /\ \A i \in BackoffWaits :
           /\ i > 1
           /\ client.events[i - 1].ev = "attempt"
           /\ Raised(client.events[i - 1].outcome)
           /\ client.events[i - 1].n < MAX_RETRIES

\* C26: _initialize_client always terminates; it makes no connection attempt when
\* the environment requests mock mode and at most 5 otherwise, stops at the first
\* attempt whose ping succeeds with mock mode off, turns mock mode on exactly when
\* all 5 attempts failed, and waits (backoff) only after an attempt that raised and
\* never after the fifth attempt
C26_InitializeTerminates == <>Ready /\ []C26_AttemptsBounded

\* C26 witness: five attempts that all raised, four backoff waits, mock mode on
C26_Witness ==
    /\ Ready
    /\ mock_mode
    /\ Cardinality(FailedAttempts) = MAX_RETRIES
    /\ Cardinality(BackoffWaits) = MAX_RETRIES - 1
    /\ client.events[Len(client.events)] = AttemptEvent(MAX_RETRIES, "ping_raised")

\* connected at the third attempt, after a false ping (no wait) and a raised one
C26_WitnessConnected ==
    /\ Ready
    /\ ~mock_mode
    /\ Cardinality(Attempts) = 3
    /\ Cardinality(BackoffWaits) = 1
    /\ client.events[2].outcome = "ping_false"

\* C27: a client in mock mode stays in mock mode over every later operation; in
\* mock mode every search returns the same three canned hits whatever the
\* collection and the query, and get_document returns a document only for id '1'
C27_MockModeStays ==
    /\ [][mock_mode => mock_mode']_vars
    /\ []((mock_mode /\ client.last.op = "search") =>
            (client.last.result = MockHits /\ Len(client.last.result) = 3))
    /\ []((mock_mode /\ client.last.op = "get_document") =>
            /\ client.last.result # None => client.last.id = "1"
            /\ client.last.id = "1" =>
                   client.last.result = Some(IF client.last.index = JOBS_INDEX
                                             THEN MockJobDoc ELSE MockCandidateDoc))

\* C27 witness: in mock mode after the retries ran out, a job the index holds under
\* id '2' is not returned
C27_Witness ==
    /\ mock_mode
    /\ ~EnvRequestsMock(client.env)
    /\ index[JOBS_INDEX]["2"] # None
    /\ client.last = [op |-> "get_document", index |-> JOBS_INDEX, id |-> "2",
                      result |-> None]

\* the canned hits answered to a search in mock mode while the cluster is up
C27_WitnessSearch ==
    /\ mock_mode
    /\ esUp
    /\ client.last.op = "search"
    /\ client.last.result = MockHits

(***************************************************************************)
(* Properties of the concurrent requests (SpecConcurrent).                 *)
(***************************************************************************)
\* the hits a finished thread's search got back, none if it did not search
HitsOf(t) ==
    LET c == th[t].calls
    IN  IF c # <<>> /\ c[Len(c)].op = "search" THEN c[Len(c)].hits ELSE <<>>

\* C24: over an unchanging index each of the interleaved requests ends with the
\* outcome and the calls it has when run alone (its search answered the same), and
\* no step of a request changes the index, the client's state or another request
C24_RequestsIndependent ==
    /\ [](\A t \in Threads :
            (writes = 0 /\ th[t].pc = "done") =>
                /\ th[t].outcome = RunAlone(th[t].req, HitsOf(t)).outcome
                /\ th[t].calls = RunAlone(th[t].req, HitsOf(t)).calls)
    /\ [][th' # th =>
             /\ index' = index /\ esUp' = esUp /\ mock_mode' = mock_mode
             /\ \E t \in Threads : \A u \in Threads \ {t} : th'[u] = th[u]]_vars

\* C24 witness: two requests of opposite directions both searched, over an index
\* nobody wrote to
C24_Witness ==
    /\ writes = 0
    /\ ~mock_mode
    /\ th["t1"].pc = "done" /\ th["t2"].pc = "done"
    /\ th["t1"].req.doc_type = "job" /\ th["t2"].req.doc_type = "candidate"
    /\ th["t1"].outcome = Ok(Matches(<<Hit1, Hit2>>))
    /\ th["t2"].outcome = Ok(Matches(<<Hit2, Hit1>>))

\* C28: the document a request's query is built from (the repository's fetch) is the
\* document whose existence MatchingService checked (the service's fetch), also
\* when the index is written between the steps of the request
C28_SingleSnapshot ==
    \A t \in Threads : Len(th[t].seen) = 2 => th[t].seen[2] = th[t].seen[1]

====
